---- MODULE Spec2Model ----
(***************************************************************************)
(* Retrieval core of the crawler: WebCrawler.chunk_content (crawler.py),   *)
(* SupabaseClient.add_pages / search_by_text / search_by_embedding /       *)
(* hybrid_search (db_client.py) and WebCrawler.search (crawler.py).        *)
(*                                                                         *)
(* Text is a sequence of characters over a small alphabet:                 *)
(*   "w" a word character, "sp" a space, "nl" a newline, "hash" '#',       *)
(*   "dot" '.', "com" ','.                                                 *)
(***************************************************************************)
EXTENDS Integers, Sequences, FiniteSets, TLC

\* the call of chunk_content: its arguments, whether the tokenizer works
\* during the call, the returned list, and where the call is ("input",
\* then "done" when it returned or "raised" when it raised)
VARIABLES content, max_tokens, overlap_tokens, tokenizer_ok, result, cstage

cvars == <<content, max_tokens, overlap_tokens, tokenizer_ok, result, cstage>>

\* the content store (table crawl_pages, rows in physical order), its id
\* sequence, and the last call made on it with its arguments and result
VARIABLES rows, nextId, op, args, ret

svars == <<rows, nextId, op, args, ret>>

\* the add_pages calls in progress, statement by statement (calls), and
\* the embedding request of a search call (emb)
VARIABLES calls, emb

xvars == <<calls, emb>>

vars == <<cvars, svars, xvars>>

(***************************************************************************)
(* Bounds of the chunker's inputs.                                         *)
(***************************************************************************)
MaxPieces == 4
MaxTokens == 3
MaxOverlap == 2

\* current_chunk[-1000:], crawler.py line 376
OverlapLookback == 1000
\* the {1,6} of the header pattern, crawler.py line 267
MaxHashes == 6

NoneIdx == -1

Whitespace == {"sp", "nl"}

Min(a, b) == IF a < b THEN a ELSE b
Max(a, b) == IF a > b THEN a ELSE b

(***************************************************************************)
(* The inputs: contents are concatenations of at most MaxPieces pieces.    *)
(***************************************************************************)
Pieces ==
    { <<"w">>, <<"w", "sp">>, <<"nl", "nl">>,
      <<"hash", "sp", "w", "nl">>, <<"dot", "sp">>, <<"nl">> }

RECURSIVE ContentsOf(_)
ContentsOf(n) ==
    IF n = 0 THEN { <<>> }
    ELSE LET prev == ContentsOf(n - 1)
         IN  prev \cup { c \o p : c \in prev, p \in Pieces }

PageUrl == <<"w", "dot", "w">>

(***************************************************************************)
(* The tokenizer (tiktoken cl100k_base behind EmbeddingGenerator).  A      *)
(* token is a non-empty sequence of characters; a blank line "\n\n" is one *)
(* token, every other character is a token of its own.                     *)
(***************************************************************************)
RECURSIVE EncodeFrom(_, _)
EncodeFrom(text, i) ==
    IF i > Len(text) THEN <<>>
    ELSE IF i < Len(text) /\ text[i] = "nl" /\ text[i + 1] = "nl"
         THEN << <<"nl", "nl">> >> \o EncodeFrom(text, i + 2)
         ELSE << <<text[i]>> >> \o EncodeFrom(text, i + 1)

Encode(text) == EncodeFrom(text, 1)

RECURSIVE Decode(_)
Decode(tokens) ==
    IF tokens = <<>> THEN <<>> ELSE Head(tokens) \o Decode(Tail(tokens))

count_tokens(text) == Len(Encode(text))

(***************************************************************************)
(* String helpers used by chunk_content.                                   *)
(***************************************************************************)
\* text[i .. i+Len(pat)-1] = pat   (i is 1-based)
OccursAt(text, pat, i) ==
    /\ i >= 1
    /\ i + Len(pat) - 1 <= Len(text)
    /\ \A k \in 1..Len(pat) : text[i + k - 1] = pat[k]

\* text occurs in whole as a contiguous piece (pat in whole)
Contains(whole, text) == \E i \in 1..(Len(whole) + 1) : OccursAt(whole, text, i)

\* str.rfind(pat): the highest 0-based index of an occurrence, or -1
RFind(text, pat) ==
    LET hits == { i \in 1..Len(text) : OccursAt(text, pat, i) }
    IN  IF hits = {} THEN -1
        ELSE (CHOOSE i \in hits : \A j \in hits : j <= i) - 1

\* text[-n:]
LastChars(text, n) ==
    IF Len(text) <= n THEN text ELSE SubSeq(text, Len(text) - n + 1, Len(text))

\* bool(p.strip())
StripNonEmpty(text) == \E i \in 1..Len(text) : text[i] \notin Whitespace

\* content.split('\n\n')
RECURSIVE SplitParas(_, _, _)
SplitParas(text, i, cur) ==
    IF i > Len(text) THEN <<cur>>
    ELSE IF OccursAt(text, <<"nl", "nl">>, i)
         THEN <<cur>> \o SplitParas(text, i + 2, <<>>)
         ELSE SplitParas(text, i + 1, Append(cur, text[i]))

RECURSIVE Filter(_, _)
Filter(seq, i) ==
    IF i > Len(seq) THEN <<>>
    ELSE IF StripNonEmpty(seq[i]) THEN <<seq[i]>> \o Filter(seq, i + 1)
         ELSE Filter(seq, i + 1)

Paragraphs(text) == Filter(SplitParas(text, 1, <<>>), 1)

(***************************************************************************)
(* re.split(r'(#{1,6}\s+.+?\n)', content): the header pattern is 1..6 '#'  *)
(* (greedy), whitespace (greedy, backtracking), one or more characters     *)
(* other than newline (lazy), a newline.                                   *)
(***************************************************************************)
RECURSIVE RunLen(_, _, _)
RunLen(text, i, S) ==
    IF i > Len(text) \/ text[i] \notin S THEN 0 ELSE 1 + RunLen(text, i + 1, S)

\* the first newline at or after p, 0 when there is none
FirstNl(text, p) ==
    LET nls == { q \in p..Len(text) : text[q] = "nl" }
    IN  IF nls = {} THEN 0 ELSE CHOOSE q \in nls : \A r \in nls : q <= r

\* the last index of the match that starts at i, 0 when none starts there
HeaderMatchEnd(text, i) ==
    LET h == RunLen(text, i, {"hash"})
        W == RunLen(text, i + h, Whitespace)
        S == { s \in 1..W :
                 LET p == i + h + s
                 IN  p <= Len(text) /\ text[p] # "nl" /\ FirstNl(text, p) # 0 }
    IN  IF h < 1 \/ h > MaxHashes \/ S = {} THEN 0
        ELSE FirstNl(text, i + h + (CHOOSE s \in S : \A t \in S : t <= s))

RECURSIVE ReSplit(_, _, _)
ReSplit(text, i, cur) ==
    IF i > Len(text) THEN <<cur>>
    ELSE LET e == HeaderMatchEnd(text, i)
         IN  IF e # 0
             THEN <<cur, SubSeq(text, i, e)>> \o ReSplit(text, e + 1, <<>>)
             ELSE ReSplit(text, i + 1, Append(cur, text[i]))

\* the loop that groups the headers with their content
RECURSIVE GroupSections(_, _, _, _)
GroupSections(hs, k, current_section, sections) ==
    IF k > Len(hs)
    THEN IF current_section # <<>> THEN Append(sections, current_section)
         ELSE sections
    ELSE IF (k - 1) % 2 = 0 /\ current_section # <<>>
         THEN GroupSections(hs, k + 1, hs[k], Append(sections, current_section))
         ELSE GroupSections(hs, k + 1, current_section \o hs[k], sections)

Sections(text) ==
    LET sections == GroupSections(ReSplit(text, 1, <<>>), 1, <<>>, <<>>)
    IN  IF Len(sections) <= 1 THEN Paragraphs(text) ELSE sections

(***************************************************************************)
(* The records chunk_content builds.                                       *)
(***************************************************************************)
DigitChar == <<"0", "1", "2", "3", "4", "5", "6", "7", "8", "9">>

RECURSIVE Digits(_)
Digits(n) ==
    IF n < 10 THEN <<DigitChar[n + 1]>>
    ELSE Digits(n \div 10) \o <<DigitChar[(n % 10) + 1]>>

\* f"{page['url']}#chunk-{chunk_index}"
ChunkUrl(url, idx) == url \o <<"hash", "chunk-">> \o Digits(idx)

Page(url, text) ==
    [url |-> url, content |-> text, is_chunk |-> FALSE,
     chunk_index |-> NoneIdx, token_count |-> NoneIdx]

MakeChunk(page, text, idx, tokens) ==
    [url |-> ChunkUrl(page.url, idx), content |-> text, is_chunk |-> TRUE,
     chunk_index |-> idx, token_count |-> tokens]

\* a variant that closes the running chunk without advancing chunk_index
CloseChunkKeepIndex(page, st) ==
    [st EXCEPT !.chunks = Append(st.chunks,
                   MakeChunk(page, st.current_chunk, st.chunk_index,
                             st.current_tokens))]

\* closes the running chunk: appends it and advances chunk_index
CloseChunk(page, st) ==
    [st EXCEPT !.chunks = Append(st.chunks,
                   MakeChunk(page, st.current_chunk, st.chunk_index,
                             st.current_tokens)),
               !.chunk_index = st.chunk_index + 1]

\* the text carried over into the next chunk
OverlapText(current_chunk) ==
    LET overlap_text == LastChars(current_chunk, OverlapLookback)
        break_points == << RFind(overlap_text, <<"nl", "nl">>),
                           RFind(overlap_text, <<"dot", "sp">>),
                           RFind(overlap_text, <<"com", "sp">>),
                           RFind(overlap_text, <<"sp">>) >>
        found == { k \in 1..4 : break_points[k] # -1 }
    IN  IF found = {} THEN <<>>
        ELSE LET break_point ==
                     break_points[CHOOSE k \in found : \A j \in found : k <= j]
             IN  SubSeq(overlap_text, break_point + 2, Len(overlap_text))

\* a variant that advances by max_tokens and does not stop at the first
\* window that reaches the end
RECURSIVE HardSplitDisjoint(_, _, _, _, _, _)
HardSplitDisjoint(page, tokens, start_idx, st, maxt, ovl) ==
    IF start_idx >= Len(tokens) THEN st
    ELSE LET end_idx == Min(start_idx + maxt, Len(tokens))
             chunk_tokens == SubSeq(tokens, start_idx + 1, end_idx)
         IN  HardSplitDisjoint(page, tokens, start_idx + maxt,
                 [st EXCEPT
                    !.chunks = Append(st.chunks,
                        MakeChunk(page, Decode(chunk_tokens),
                                  st.chunk_index, Len(chunk_tokens))),
                    !.chunk_index = st.chunk_index + 1],
                 maxt, ovl)

\* for start_idx in range(0, len(tokens), max_tokens - overlap_tokens)
RECURSIVE HardSplit(_, _, _, _, _, _)
HardSplit(page, tokens, start_idx, st, maxt, ovl) ==
    IF maxt - ovl = 0 THEN [st EXCEPT !.raised = TRUE]
    ELSE IF maxt - ovl < 0 \/ start_idx >= Len(tokens) THEN st
    ELSE LET end_idx == Min(start_idx + maxt, Len(tokens))
             chunk_tokens == SubSeq(tokens, start_idx + 1, end_idx)
             st2 == [st EXCEPT
                       !.chunks = Append(st.chunks,
                           MakeChunk(page, Decode(chunk_tokens),
                                     st.chunk_index, Len(chunk_tokens))),
                       !.chunk_index = st.chunk_index + 1]
         IN  IF end_idx >= Len(tokens) THEN st2
             ELSE HardSplit(page, tokens, start_idx + (maxt - ovl), st2,
                            maxt, ovl)

\* one iteration of "for section in sections"
SectionStep(page, section, st, maxt, ovl) ==
    LET section_tokens == count_tokens(section)
    IN  IF section_tokens > maxt
        THEN LET st1 == IF st.current_tokens > 0
                        THEN [CloseChunk(page, st) EXCEPT
                                !.current_chunk = <<>>, !.current_tokens = 0]
                        ELSE st
             IN  HardSplit(page, Encode(section), 0, st1, maxt, ovl)
        ELSE LET st1 ==
                   IF st.current_tokens + section_tokens > maxt
                      /\ st.current_tokens > 0
                   THEN LET carried == IF st.current_tokens > ovl
                                       THEN OverlapText(st.current_chunk)
                                       ELSE <<>>
                        IN  [CloseChunk(page, st) EXCEPT
                               !.current_chunk = carried,
                               !.current_tokens = count_tokens(carried)]
                   ELSE st
                 joined == IF st1.current_chunk # <<>>
                           THEN st1.current_chunk \o <<"nl", "nl">> \o section
                           ELSE section
             IN  [st1 EXCEPT !.current_chunk = joined,
                             !.current_tokens = count_tokens(joined)]

RECURSIVE ChunkLoop(_, _, _, _, _, _)
ChunkLoop(page, sections, k, st, maxt, ovl) ==
    IF k > Len(sections) \/ st.raised THEN st
    ELSE ChunkLoop(page, sections, k + 1,
                   SectionStep(page, sections[k], st, maxt, ovl), maxt, ovl)

LoopInit ==
    [chunks |-> <<>>, chunk_index |-> 0, current_chunk |-> <<>>,
     current_tokens |-> 0, raised |-> FALSE]

\* a variant that returns the chunks without the parent record
chunks_without_parent(page, maxt, ovl) ==
    IF page.content = <<>> THEN <<page>>
    ELSE LET st == ChunkLoop(page, Sections(page.content), 1, LoopInit,
                             maxt, ovl)
             chunks == IF st.current_chunk # <<>>
                       THEN CloseChunk(page, st).chunks
                       ELSE st.chunks
         IN  IF st.raised THEN <<page>>
             ELSE IF chunks = <<>> THEN <<page>>
             ELSE chunks

\* WebCrawler.chunk_content(page, max_tokens, overlap_tokens)
chunk_content(page, maxt, ovl) ==
    IF page.content = <<>> THEN <<page>>
    ELSE LET st == ChunkLoop(page, Sections(page.content), 1, LoopInit,
                             maxt, ovl)
             chunks == IF st.current_chunk # <<>>
                       THEN CloseChunk(page, st).chunks
                       ELSE st.chunks
         IN  IF st.raised THEN <<page>>
             ELSE IF chunks = <<>> THEN <<page>>
             ELSE <<page>> \o chunks

\* the except branch of chunk_content: the fallback record's metadata takes
\* count_tokens(content), so the branch raises if the tokenizer does
ChunkExcept(page, tok_ok) ==
    IF tok_ok THEN [raised |-> FALSE, pages |-> <<page>>]
    ELSE [raised |-> TRUE, pages |-> <<>>]

\* chunk_content called with a tokenizer that works or raises.  A non-empty
\* content reaches a tokenizer call on every path of the try block (the
\* count of the first section, or the chunk_size of an unchunked page)
ChunkCall(page, maxt, ovl, tok_ok) ==
    IF page.content = <<>> THEN [raised |-> FALSE, pages |-> <<page>>]
    ELSE IF ~tok_ok THEN ChunkExcept(page, tok_ok)
    ELSE [raised |-> FALSE, pages |-> chunk_content(page, maxt, ovl)]

(***************************************************************************)
(* The chunker as a state machine: an input is drawn, chunk_content runs.  *)
(***************************************************************************)
NoCalls ==
    /\ calls = <<>>
    /\ emb = <<>>

StoreIdle ==
    /\ rows = <<>>
    /\ nextId = 1
    /\ op = "none"
    /\ args = <<>>
    /\ ret = <<>>

ChunkInit ==
    /\ StoreIdle
    /\ content \in ContentsOf(MaxPieces)
    /\ max_tokens \in 1..MaxTokens
    /\ overlap_tokens \in 0..MaxOverlap
    /\ tokenizer_ok \in BOOLEAN
    /\ result = <<>>
    /\ cstage = "input"
    /\ NoCalls

ChunkContent ==
    LET r == ChunkCall(Page(PageUrl, content), max_tokens, overlap_tokens,
                       tokenizer_ok)
    IN  /\ cstage = "input"
        /\ result' = r.pages
        /\ cstage' = IF r.raised THEN "raised" ELSE "done"
        /\ UNCHANGED <<content, max_tokens, overlap_tokens, tokenizer_ok, svars,
                       xvars>>

ChunkNext == ChunkContent

SpecChunk == ChunkInit /\ [][ChunkNext]_vars

(***************************************************************************)
(* The content store.  A row of crawl_pages; NULL is NullId for parent_id, *)
(* NoneIdx for chunk_index and NoEmbedding for embedding.                  *)
(***************************************************************************)
NullId == 0
NoEmbedding == "null"

Embeddings == {"A", "B", "C"}

\* the pages handed to add_pages: documents and chunks of two urls
Url1 == <<"w", "dot", "x">>
Url2 == <<"x", "dot", "w">>

Doc(url, title, text, embedding) ==
    [url |-> url, title |-> title, content |-> text, embedding |-> embedding,
     is_chunk |-> FALSE, chunk_index |-> NoneIdx]

Chunk(url, idx, title, text, embedding) ==
    [url |-> ChunkUrl(url, idx), title |-> title, content |-> text,
     embedding |-> embedding, is_chunk |-> TRUE, chunk_index |-> idx]

D1 == Doc(Url1, <<"W">>, <<"w", "sp", "x">>, "A")
D1c0 == Chunk(Url1, 0, <<"W">>, <<"w">>, "A")
D1c1 == Chunk(Url1, 1, <<"W">>, <<"x">>, "B")
D1v2 == Doc(Url1, <<"W">>, <<"w", "dot", "x">>, "B")
D2 == Doc(Url2, <<"x">>, <<"x", "w", "dot", "x">>, "C")
D2c0 == Chunk(Url2, 0, <<"x">>, <<"w", "dot">>, NoEmbedding)
D2v2 == Doc(Url2, <<"w", "dot", "x">>, <<"x">>, "C")

\* the batches: a site id and the list of pages
Batches ==
    << [site |-> 1, pages |-> <<D1>>],
       [site |-> 1, pages |-> <<D1, D1c0, D1c1>>],
       [site |-> 1, pages |-> <<D1c0>>],
       [site |-> 1, pages |-> <<D1v2>>],
       [site |-> 2, pages |-> <<D2, D2c0>>],
       [site |-> 2, pages |-> <<D2c0, D1c1>>],
       [site |-> 2, pages |-> <<D2v2, D2v2>>],
       [site |-> 1, pages |-> <<D1, D1c0, D2c0, D1c0>>] >>

\* cap of the id sequence
MaxId == 8

\* url.split('#')[0] if '#' in url else url
ParentUrl(url) ==
    LET hs == { i \in 1..Len(url) : url[i] = "hash" }
    IN  IF hs = {} THEN url
        ELSE SubSeq(url, 1, (CHOOSE i \in hs : \A j \in hs : i <= j) - 1)

\* cur.fetchone() of a SELECT id: the first matching row's index, 0 if none
FirstDoc(tbl, url) ==
    LET hit == { i \in 1..Len(tbl) : tbl[i].url = url /\ ~tbl[i].is_chunk }
    IN  IF hit = {} THEN 0 ELSE CHOOSE i \in hit : \A j \in hit : i <= j

FirstChunk(tbl, url, idx) ==
    LET hit == { i \in 1..Len(tbl) :
                   tbl[i].url = url /\ tbl[i].is_chunk /\ tbl[i].chunk_index = idx }
    IN  IF hit = {} THEN 0 ELSE CHOOSE i \in hit : \A j \in hit : i <= j

\* the unique index idx_crawl_pages_url rejects a second row with the url
UrlTaken(tbl, url) == \E i \in 1..Len(tbl) : tbl[i].url = url

\* a variant that inserts a Document without looking for an existing row
InsertDocument(st, site_id, page) ==
    LET page_id == st.next
    IN  [st EXCEPT
           !.tbl = Append(@,
               [id |-> page_id, site_id |-> site_id, url |-> page.url,
                title |-> page.title, content |-> page.content,
                embedding |-> page.embedding, is_chunk |-> FALSE,
                chunk_index |-> NoneIdx, parent_id |-> NullId]),
           !.next = @ + 1,
           !.page_ids = Append(@, page_id),
           !.parent_url_to_id =
               [u \in DOMAIN @ \cup {page.url} |->
                   IF u = page.url THEN page_id ELSE @[u]]]

\* the first loop of add_pages: one parent page, inside the transaction
UpsertDocument(st, site_id, page) ==
    LET existing == FirstDoc(st.tbl, page.url)
    IN  IF existing # 0
        THEN LET page_id == st.tbl[existing].id
             IN  [st EXCEPT
                    !.tbl[existing] =
                        [@ EXCEPT !.title = page.title,
                                  !.content = page.content,
                                  !.embedding = page.embedding,
                                  !.is_chunk = FALSE,
                                  !.chunk_index = NoneIdx,
                                  !.parent_id = NullId],
                    !.page_ids = Append(@, page_id),
                    !.parent_url_to_id =
                        [u \in DOMAIN @ \cup {page.url} |->
                            IF u = page.url THEN page_id ELSE @[u]]]
        ELSE IF UrlTaken(st.tbl, page.url)
        THEN [st EXCEPT !.raised = TRUE, !.next = @ + 1]
        ELSE LET page_id == st.next
             IN  [st EXCEPT
                    !.tbl = Append(@,
                        [id |-> page_id, site_id |-> site_id, url |-> page.url,
                         title |-> page.title, content |-> page.content,
                         embedding |-> page.embedding, is_chunk |-> FALSE,
                         chunk_index |-> NoneIdx, parent_id |-> NullId]),
                    !.next = @ + 1,
                    !.page_ids = Append(@, page_id),
                    !.parent_url_to_id =
                        [u \in DOMAIN @ \cup {page.url} |->
                            IF u = page.url THEN page_id ELSE @[u]]]

\* the second loop of add_pages: one chunk
UpsertChunk(st, site_id, chunk) ==
    LET parent_url == ParentUrl(chunk.url)
    IN  IF parent_url \notin DOMAIN st.parent_url_to_id
        THEN st          \* "Parent page not found for chunk": continue
        ELSE
        LET parent_id == st.parent_url_to_id[parent_url]
            existing == FirstChunk(st.tbl, chunk.url, chunk.chunk_index)
        IN  IF existing # 0
            THEN [st EXCEPT
                    !.tbl[existing] =
                        [@ EXCEPT !.title = chunk.title,
                                  !.content = chunk.content,
                                  !.embedding = chunk.embedding,
                                  !.parent_id = parent_id],
                    !.page_ids = Append(@, st.tbl[existing].id)]
            ELSE IF UrlTaken(st.tbl, chunk.url)
            THEN [st EXCEPT !.raised = TRUE, !.next = @ + 1]
            ELSE [st EXCEPT
                    !.tbl = Append(@,
                        [id |-> st.next, site_id |-> site_id, url |-> chunk.url,
                         title |-> chunk.title, content |-> chunk.content,
                         embedding |-> chunk.embedding, is_chunk |-> TRUE,
                         chunk_index |-> chunk.chunk_index,
                         parent_id |-> parent_id]),
                    !.next = @ + 1,
                    !.page_ids = Append(@, st.next)]

RECURSIVE UpsertAll(_, _, _, _, _)
UpsertAll(st, site_id, pages, k, chunks) ==
    IF k > Len(pages) \/ st.raised THEN st
    ELSE UpsertAll(IF chunks THEN UpsertChunk(st, site_id, pages[k])
                   ELSE UpsertDocument(st, site_id, pages[k]),
                   site_id, pages, k + 1, chunks)

\* SupabaseClient.add_pages(site_id, pages): the committed table, the id
\* sequence and the returned list
add_pages(tbl, next, site_id, pages, db_up) ==
    LET parent_pages == SelectSeq(pages, LAMBDA p : ~p.is_chunk)
        chunk_pages == SelectSeq(pages, LAMBDA p : p.is_chunk)
        st0 == [tbl |-> tbl, next |-> next, page_ids |-> <<>>,
                parent_url_to_id |-> <<>>, raised |-> FALSE]
        st1 == UpsertAll(st0, site_id, parent_pages, 1, FALSE)
        st2 == UpsertAll(st1, site_id, chunk_pages, 1, TRUE)
    IN  IF pages = <<>> THEN [tbl |-> tbl, next |-> next, page_ids |-> <<>>]
        ELSE IF ~db_up THEN [tbl |-> tbl, next |-> next, page_ids |-> <<>>]
        ELSE IF st1.raised
             THEN [tbl |-> tbl, next |-> st1.next, page_ids |-> <<>>]
        ELSE IF st2.raised
             THEN [tbl |-> st1.tbl, next |-> st2.next, page_ids |-> <<>>]
        ELSE [tbl |-> st2.tbl, next |-> st2.next, page_ids |-> st2.page_ids]

(***************************************************************************)
(* What the SQL of the searches computes.  Similarities, ranks and         *)
(* thresholds are in thousandths (0.5 is 500).                             *)
(***************************************************************************)
Alnum == {"w", "x", "W"}

LowerChar(c) == IF c = "W" THEN "w" ELSE c

Lower(text) == [i \in 1..Len(text) |-> LowerChar(text[i])]

\* title ILIKE '%query%'
ILike(text, query) == Contains(Lower(text), Lower(query))

\* a stable sort by ascending key: an element goes before the first one
\* of a strictly larger key
InsertInto(sorted, x) ==
    LET later == { j \in 1..Len(sorted) : x.key < sorted[j].key }
        pos == IF later = {} THEN Len(sorted) + 1
               ELSE CHOOSE j \in later : \A k \in later : j <= k
    IN  SubSeq(sorted, 1, pos - 1) \o <<x>> \o SubSeq(sorted, pos, Len(sorted))

StableSort(seq, keys) ==
    LET ins[i \in 0..Len(seq)] ==
            IF i = 0 THEN <<>>
            ELSE InsertInto(ins[i - 1], [key |-> keys[i], val |-> seq[i]])
        sorted == ins[Len(seq)]
    IN  [i \in 1..Len(seq) |-> sorted[i].val]

\* seq[:n]
Take(seq, n) == SubSeq(seq, 1, Min(n, Len(seq)))

\* the words full-text search indexes: the runs between spaces, without the
\* dots at their ends, lower-cased (a dotted host stays one word)
RECURSIVE TrimDots(_)
TrimDots(word) ==
    IF word = <<>> THEN <<>>
    ELSE IF Head(word) = "dot" THEN TrimDots(Tail(word))
    ELSE IF word[Len(word)] = "dot" THEN TrimDots(SubSeq(word, 1, Len(word) - 1))
    ELSE word

RECURSIVE SplitWords(_, _, _)
SplitWords(text, i, cur) ==
    IF i > Len(text) THEN <<cur>>
    ELSE IF text[i] = "sp" THEN <<cur>> \o SplitWords(text, i + 1, <<>>)
    ELSE SplitWords(text, i + 1, Append(cur, text[i]))

Words(text) ==
    LET raw == SplitWords(Lower(text), 1, <<>>)
        trimmed == [i \in 1..Len(raw) |-> TrimDots(raw[i])]
    IN  SelectSeq(trimmed, LAMBDA word : word # <<>>)

Lexemes(text) ==
    LET ws == Words(text)
    IN  { ws[i] : i \in 1..Len(ws) }

\* to_tsvector('english', title || ' ' || content)
RowText(r) == r.title \o <<"sp">> \o r.content

\* to_tsvector(...) @@ plainto_tsquery('english', query)
FtsMatch(r, query) ==
    LET q == Lexemes(query)
    IN  q # {} /\ q \subseteq Lexemes(RowText(r))

\* ts_rank_cd: grows with the occurrences of the query's words
FtsRank(r, query) ==
    LET ws == Words(RowText(r))
    IN  Cardinality({ i \in 1..Len(ws) : ws[i] \in Lexemes(query) })

\* domain_pattern.findall(query.lower()): the pattern has one group, so
\* findall yields, per match, the last "label." before the final label
RECURSIVE DomainMatch(_, _, _)
DomainMatch(q, labStart, group) ==
    LET e == labStart + RunLen(q, labStart, Alnum) - 1
    IN  IF e + 2 <= Len(q) /\ q[e + 1] = "dot" /\ q[e + 2] \in Alnum
        THEN DomainMatch(q, e + 2, SubSeq(q, labStart, e + 1))
        ELSE [end |-> e, group |-> group]

RECURSIVE FindDomains(_, _)
FindDomains(q, i) ==
    IF i > Len(q) THEN <<>>
    ELSE IF q[i] \notin Alnum THEN FindDomains(q, i + 1)
    ELSE LET m == DomainMatch(q, i, <<>>)
         IN  IF m.group = <<>> THEN FindDomains(q, i + 1)
             ELSE <<m.group>> \o FindDomains(q, m.end + 1)

QueryDomains(query) == FindDomains(Lower(query), 1)

\* p.url LIKE '%domain%' for one of the domains
UrlLikeAny(url, domains) ==
    \E k \in 1..Len(domains) : Contains(url, domains[k])

\* AND p.site_id = %s, when a site_id is given (NullId: none given)
SiteOk(r, site_id) == site_id = NullId \/ r.site_id = site_id

\* LEFT JOIN crawl_pages parent ON p.parent_id = parent.id
ParentTitle(tbl, r) ==
    LET ps == { i \in 1..Len(tbl) : tbl[i].id = r.parent_id }
    IN  IF ps = {} THEN <<>> ELSE tbl[CHOOSE i \in ps : TRUE].title

\* dict(zip(columns, row)) of a text query, with 'context' for a chunk
TextResult(tbl, r, rank) ==
    [id |-> r.id, site_id |-> r.site_id, url |-> r.url, title |-> r.title,
     content |-> r.content, is_chunk |-> r.is_chunk,
     chunk_index |-> r.chunk_index, parent_id |-> r.parent_id,
     parent_title |-> ParentTitle(tbl, r), rank |-> rank,
     similarity |-> NoneIdx, vector_score |-> NoneIdx, text_score |-> NoneIdx,
     snippet |-> <<>>,
     keys |-> IF r.is_chunk THEN {"rank", "context"} ELSE {"rank"}]

ChunkKey(r) == IF r.is_chunk THEN 1 ELSE 0

\* ORDER BY p.is_chunk ASC
ByIsChunk(rs) == StableSort(rs, [i \in 1..Len(rs) |-> ChunkKey(rs[i])])

\* ORDER BY rank DESC, p.is_chunk ASC
ByRankThenIsChunk(rs) ==
    StableSort(rs, [i \in 1..Len(rs) |-> ChunkKey(rs[i]) - 2 * rs[i].rank])

TitleRank == 1000
ILikeRank == 500

\* the title query: p.title ILIKE %s ... ORDER BY p.is_chunk LIMIT limit
TitleQuery(tbl, query, limit, site_id) ==
    LET hit == SelectSeq(tbl, LAMBDA r : ILike(r.title, query) /\ SiteOk(r, site_id))
        res == [i \in 1..Len(hit) |-> TextResult(tbl, hit[i], TitleRank)]
    IN  Take(ByIsChunk(res), limit)

\* the full-text query ... ORDER BY rank DESC, p.is_chunk LIMIT limit * 2
FullTextQuery(tbl, query, limit, site_id) ==
    LET hit == SelectSeq(tbl, LAMBDA r : FtsMatch(r, query) /\ SiteOk(r, site_id))
        res == [i \in 1..Len(hit) |->
                   TextResult(tbl, hit[i], FtsRank(hit[i], query))]
    IN  Take(ByRankThenIsChunk(res), limit * 2)

\* the relaxed query: (p.title ILIKE %s OR p.content ILIKE %s) ... LIMIT limit
ILikeQuery(tbl, query, limit, site_id) ==
    LET hit == SelectSeq(tbl, LAMBDA r :
                   /\ ILike(r.title, query) \/ ILike(r.content, query)
                   /\ SiteOk(r, site_id))
        res == [i \in 1..Len(hit) |-> TextResult(tbl, hit[i], ILikeRank)]
    IN  Take(ByIsChunk(res), limit)

\* the domain query: full-text match AND p.url LIKE '%domain%'
DomainQuery(tbl, query, domains, limit, site_id) ==
    LET hit == SelectSeq(tbl, LAMBDA r :
                   /\ FtsMatch(r, query)
                   /\ SiteOk(r, site_id)
                   /\ UrlLikeAny(r.url, domains))
        res == [i \in 1..Len(hit) |->
                   TextResult(tbl, hit[i], FtsRank(hit[i], query))]
    IN  Take(ByRankThenIsChunk(res), limit * 2)

\* the try block of search_by_text.  env.db_up: the store can be reached;
\* env.percent_ok: the driver passes the '%' that the domain query writes
\* into its LIKE pattern next to the %s parameters (otherwise cur.execute
\* raises on them)
TextSearchTry(env, domains, by_domain, by_title, by_fts, by_ilike, limit) ==
    IF ~env.db_up THEN [raised |-> TRUE, rows |-> <<>>]
    ELSE IF domains # <<>>
    THEN IF ~env.percent_ok THEN [raised |-> TRUE, rows |-> <<>>]
         ELSE [raised |-> FALSE, rows |-> Take(by_domain, limit)]
    ELSE IF by_title # <<>>
    THEN [raised |-> FALSE, rows |-> Take(by_title, limit)]
    ELSE IF by_fts # <<>>
    THEN [raised |-> FALSE, rows |-> Take(by_fts, limit)]
    ELSE [raised |-> FALSE, rows |-> Take(by_ilike, limit)]

\* the queries of the try block, each run only on the path that reaches it
TextSearchBody(tbl, query, limit, site_id, env) ==
    TextSearchTry(env, QueryDomains(query),
                  DomainQuery(tbl, query, QueryDomains(query), limit, site_id),
                  TitleQuery(tbl, query, limit, site_id),
                  FullTextQuery(tbl, query, limit, site_id),
                  ILikeQuery(tbl, query, limit, site_id), limit)

\* a variant of the handler that re-raises what the try block raised
TextSearchReraise(body) == body

\* "except Exception: return []" of search_by_text
TextSearchExcept(body) ==
    IF body.raised THEN [raised |-> FALSE, rows |-> <<>>] ELSE body

\* SupabaseClient.search_by_text(query, limit, site_id)
search_by_text(tbl, query, limit, site_id, env) ==
    TextSearchExcept(TextSearchBody(tbl, query, limit, site_id, env))

(***************************************************************************)
(* Vector search.  1 - (p.embedding <=> query): the cosine similarity of   *)
(* two of the three embeddings, in thousandths.                            *)
(***************************************************************************)
Similarity(e1, e2) ==
    IF e1 = e2 THEN 1000
    ELSE IF {e1, e2} = {"A", "B"} THEN 600
    ELSE IF {e1, e2} = {"A", "C"} THEN 450
    ELSE 200

VectorResult(tbl, r, sim) ==
    [id |-> r.id, site_id |-> r.site_id, url |-> r.url, title |-> r.title,
     content |-> r.content, is_chunk |-> r.is_chunk,
     chunk_index |-> r.chunk_index, parent_id |-> r.parent_id,
     parent_title |-> ParentTitle(tbl, r), rank |-> NoneIdx,
     similarity |-> sim, vector_score |-> NoneIdx, text_score |-> NoneIdx,
     snippet |-> <<>>, keys |-> {"similarity"}]

\* ORDER BY 1 - (p.embedding <=> %s::vector) DESC, and
\* results.sort(key=similarity, reverse=True)
BySimilarity(rs) ==
    StableSort(rs, [i \in 1..Len(rs) |-> 0 - rs[i].similarity])

\* SupabaseClient.search_by_embedding(embedding, threshold, limit, site_id):
\* every failure ends in "return []".  env.vector_ok: the vector query runs
\* (the pgvector extension is there and the query raises no database error)
search_by_embedding(tbl, embedding, threshold, limit, site_id, env) ==
    LET with == SelectSeq(tbl, LAMBDA r :
                    r.embedding # NoEmbedding /\ SiteOk(r, site_id))
        found == [i \in 1..Len(with) |->
                     VectorResult(tbl, with[i],
                                  Similarity(with[i].embedding, embedding))]
        all_rows == Take(BySimilarity(found), limit * 2)
    IN  IF ~env.db_up THEN <<>>
        ELSE IF ~env.vector_ok THEN <<>>
        ELSE IF with = <<>> THEN <<>>
        ELSE SelectSeq(all_rows, LAMBDA r : r.similarity >= threshold)

\* the default similarity of a text result
TextSimilarity == 500

\* combined_results[url] = result: a dict keeps the place of a key it has
PutByUrl(combined, r) ==
    LET at == { i \in 1..Len(combined) : combined[i].url = r.url }
    IN  IF at = {} THEN Append(combined, r)
        ELSE [combined EXCEPT ![CHOOSE i \in at : TRUE] = r]

\* a variant that adds 0.2 to the vector score, capped at 1.0
BoostedSimilarity(vector_score) == Min(vector_score + 200, 1000)

\* a variant that keeps the vector score, without the floor of 0.5
VectorOnlySimilarity(vector_score) == vector_score

\* the similarity of a record found by the vector and by the text search
CombinedSimilarity(vector_score) == Max(vector_score, TextSimilarity)

RECURSIVE MergeVector(_, _, _)
MergeVector(combined, vector_results, k) ==
    IF k > Len(vector_results) THEN combined
    ELSE MergeVector(
            PutByUrl(combined,
                [vector_results[k] EXCEPT
                    !.vector_score = vector_results[k].similarity,
                    !.text_score = 0,
                    !.keys = @ \cup {"vector_score", "text_score"}]),
            vector_results, k + 1)

RECURSIVE MergeText(_, _, _)
MergeText(combined, text_results, k) ==
    IF k > Len(text_results) THEN combined
    ELSE LET r == text_results[k]
             at == { i \in 1..Len(combined) : combined[i].url = r.url }
         IN  MergeText(
                IF at # {}
                THEN LET i == CHOOSE j \in at : TRUE
                     IN  [combined EXCEPT ![i] =
                            [combined[i] EXCEPT
                                !.text_score = TextSimilarity,
                                !.similarity =
                                    CombinedSimilarity(combined[i].vector_score)]]
                ELSE Append(combined,
                        [r EXCEPT !.vector_score = 0,
                                  !.text_score = TextSimilarity,
                                  !.similarity = TextSimilarity]),
                text_results, k + 1)

\* "Add similarity scores to text results"
ScoreText(rs) ==
    [i \in 1..Len(rs) |->
        [rs[i] EXCEPT !.similarity = TextSimilarity, !.vector_score = 0,
                      !.text_score = TextSimilarity,
                      !.keys = @ \cup {"similarity", "vector_score", "text_score"}]]

\* a variant without the early return: the text search always runs
NeverEnoughVector(vector_results, limit) == FALSE

\* whether hybrid_search returns the vector results alone
EnoughVector(vector_results, limit) ==
    vector_results # <<>> /\ Len(vector_results) >= limit

\* a variant that returns the text results whole when the vector search
\* found nothing
HybridMergeUncut(vector_results, text_results, limit) ==
    IF vector_results = <<>> THEN text_results
    ELSE Take(BySimilarity(MergeText(MergeVector(<<>>, vector_results, 1),
                                     text_results, 1)), limit)

\* a variant that cuts the merged records without sorting them
HybridMergeUnsorted(vector_results, text_results, limit) ==
    IF vector_results = <<>> THEN Take(text_results, limit)
    ELSE Take(MergeText(MergeVector(<<>>, vector_results, 1),
                        text_results, 1), limit)

\* "Combine results from both searches", sorted, the top `limit`
HybridMerge(vector_results, text_results, limit) ==
    IF vector_results = <<>> THEN Take(text_results, limit)
    ELSE Take(BySimilarity(MergeText(MergeVector(<<>>, vector_results, 1),
                                     text_results, 1)), limit)

\* the try block of hybrid_search, given what the vector search and the
\* text search return; fallback is the text search of the except branch
HybridTry(fallback, vector_results, text, limit, env) ==
    IF ~env.db_up THEN fallback
    ELSE IF EnoughVector(vector_results, limit)
    THEN [raised |-> FALSE, rows |-> Take(vector_results, limit)]
    ELSE IF text.raised THEN fallback
    ELSE [raised |-> FALSE,
          rows |-> HybridMerge(vector_results, ScoreText(text.rows), limit)]

\* SupabaseClient.hybrid_search(query, embedding, threshold, limit, site_id)
hybrid_search(tbl, query, embedding, threshold, limit, site_id, env) ==
    HybridTry(search_by_text(tbl, query, limit, site_id, env),
              search_by_embedding(tbl, embedding, (threshold * 8) \div 10,
                                  limit * 2, site_id, env),
              search_by_text(tbl, query, limit * 2, site_id, env),
              limit, env)

(***************************************************************************)
(* WebCrawler.search.                                                      *)
(***************************************************************************)
SnippetLen == 200

\* content[:200] + '...' if len(content) > 200 else content
Snippet(text) ==
    IF Len(text) > SnippetLen
    THEN Take(text, SnippetLen) \o <<"dot", "dot", "dot">>
    ELSE text

\* "Enhance results with context"
Enhance(rs) ==
    [i \in 1..Len(rs) |->
        [rs[i] EXCEPT !.snippet = Snippet(rs[i].content),
                      !.keys = @ \cup (IF rs[i].is_chunk
                                       THEN {"snippet", "context"}
                                       ELSE {"snippet"})]]

\* what generate_embedding(query) does: it returns an embedding, raises,
\* or returns an empty or a non-numeric list
EmbedOutcomes == Embeddings \cup {"raise", "empty", "nonnumeric"}

\* the branches of search, given what search_by_text and hybrid_search
\* return for the query
SearchBranches(text, hybrid, use_embedding, embed) ==
    IF use_embedding
    THEN IF embed \notin Embeddings THEN text
         ELSE IF hybrid.raised THEN text
         ELSE IF hybrid.rows = <<>>
         THEN IF text.raised THEN text
              ELSE [raised |-> FALSE, rows |-> Enhance(text.rows)]
         ELSE [raised |-> FALSE, rows |-> Enhance(hybrid.rows)]
    ELSE IF text.raised THEN text
         ELSE [raised |-> FALSE, rows |-> Enhance(text.rows)]

\* WebCrawler.search(query, use_embedding, threshold, limit, site_id)
search(tbl, query, use_embedding, threshold, limit, site_id, env) ==
    SearchBranches(search_by_text(tbl, query, limit, site_id, env),
                   hybrid_search(tbl, query, env.embed, threshold, limit,
                                 site_id, env),
                   use_embedding, env.embed)

(***************************************************************************)
(* The store as a state machine: one call at a time (the core runs each    *)
(* call to completion on the calling thread), a batch is added or a search *)
(* is made, and the call returns.                                          *)
(***************************************************************************)
MaxLimit == 2

Queries ==
    { <<"w">>, <<"w", "dot", "x">>, <<"dot">>, <<"x", "sp", "w">>, <<>> }

Thresholds == {500, 750}

SiteFilters == {NullId, 1}

Init ==
    /\ StoreIdle
    /\ content = <<>>
    /\ max_tokens = 1
    /\ overlap_tokens = 0
    /\ tokenizer_ok = TRUE
    /\ result = <<>>
    /\ cstage = "idle"
    /\ NoCalls

AddPages ==
    \E b \in 1..Len(Batches) : \E up \in BOOLEAN :
        LET batch == Batches[b]
            r == add_pages(rows, nextId, batch.site, batch.pages, up)
        IN  /\ op = "none"
            /\ nextId + Len(batch.pages) <= MaxId + 1
            /\ rows' = r.tbl
            /\ nextId' = r.next
            /\ op' = "add_pages"
            /\ args' = [site_id |-> batch.site, pages |-> batch.pages,
                        db_up |-> up, before |-> rows]
            /\ ret' = [page_ids |-> r.page_ids]
            /\ UNCHANGED <<cvars, xvars>>

Search ==
    \E query \in Queries, use_embedding \in BOOLEAN, threshold \in Thresholds,
       limit \in 1..MaxLimit, site_id \in SiteFilters,
       embed \in EmbedOutcomes, up \in BOOLEAN, pct \in BOOLEAN,
       vec \in BOOLEAN :
        LET env == [db_up |-> up, percent_ok |-> pct, embed |-> embed,
                    vector_ok |-> vec]
        IN  /\ op = "none"
            \* generate_embedding raises on a blank query
            /\ ~StripNonEmpty(query) => embed = "raise"
            \* inputs that are not read are pinned
            /\ ~use_embedding => (embed = "raise" /\ threshold = 500)
            /\ QueryDomains(query) = <<>> => pct
            /\ ~up => pct
            /\ (~up \/ embed \notin Embeddings) => vec
            /\ op' = "search"
            /\ args' = [query |-> query, use_embedding |-> use_embedding,
                        threshold |-> threshold, limit |-> limit,
                        site_id |-> site_id, env |-> env]
            /\ ret' = search(rows, query, use_embedding, threshold, limit,
                             site_id, env)
            /\ UNCHANGED <<rows, nextId, cvars, xvars>>

\* the caller has the result: no call is in progress
Return ==
    /\ op # "none"
    /\ op' = "none"
    /\ args' = <<>>
    /\ ret' = <<>>
    /\ UNCHANGED <<rows, nextId, cvars, xvars>>

Next == AddPages \/ Search \/ Return

Spec == Init /\ [][Next]_vars

(***************************************************************************)
(* add_pages statement by statement, for calls that run concurrently.     *)
(* Each call has its own connection (psycopg2.connect in _get_connection)  *)
(* and so its own transaction, at the default isolation level READ         *)
(* COMMITTED: a statement sees the committed rows and the writes of its    *)
(* own transaction.  rows is the committed table.                          *)
(***************************************************************************)
\* two calls of add_pages that run at the same time, for example from two
\* background crawls
Callers == {"first", "second"}

\* a page with '#' in its url, and the page of the url before the '#'
UrlF == <<"w", "hash", "x">>
UrlW == <<"w">>

\* the record add_pages is given for a record of chunk_content: the title
\* and the embedding are those enhance_pages put on it
Enhanced(r, title, embedding) ==
    [url |-> r.url, title |-> title, content |-> r.content,
     embedding |-> embedding, is_chunk |-> r.is_chunk,
     chunk_index |-> r.chunk_index]

\* all_pages of enhance_pages for one page: the records of chunk_content
EnhancedAll(rs, title, embedding) ==
    [i \in 1..Len(rs) |-> Enhanced(rs[i], title, embedding)]

ChunkedPage(url, title, text, embedding) ==
    EnhancedAll(chunk_content(Page(url, text), 1, 0), title, embedding)

\* the batches of the concurrent calls
CallBatches ==
    << [site |-> 1, pages |-> <<D1, D1c0>>],
       [site |-> 1, pages |-> <<D1v2, D1c0, D1c1>>],
       [site |-> 2, pages |-> <<D2c0>>],
       [site |-> 1, pages |-> ChunkedPage(UrlF, <<"W">>, <<"w">>, "A")
                              \o ChunkedPage(UrlW, <<"x">>, <<"x">>, "B")] >>

\* a store an earlier crawl filled
CrawledStore == add_pages(<<>>, 1, 1, <<D1, D1c0, D1c1>>, TRUE)

\* a call before its first statement
NewCall(batch) ==
    [pc |-> "connect", site |-> batch.site,
     pages |-> batch.pages,
     docs |-> SelectSeq(batch.pages, LAMBDA q : ~q.is_chunk),
     chunks |-> SelectSeq(batch.pages, LAMBDA q : q.is_chunk),
     k |-> 1, existing |-> 0, pending |-> <<>>,
     parent_url_to_id |-> <<>>, page_ids |-> <<>>, ret |-> <<>>,
     failed_in |-> "none", left |-> {}, dropped |-> <<>>,
     found_absent |-> {}]

\* the writes of a transaction applied to a table, in their order
RECURSIVE Apply(_, _, _)
Apply(tbl, pending, i) ==
    IF i > Len(pending) THEN tbl
    ELSE LET w == pending[i]
             at == { j \in 1..Len(tbl) : tbl[j].id = w.row.id }
         IN  Apply(IF w.insert THEN Append(tbl, w.row)
                   ELSE [j \in 1..Len(tbl) |->
                            IF j \in at THEN w.row ELSE tbl[j]],
                   pending, i + 1)

\* what a statement of call c sees
View(c) == Apply(rows, calls[c].pending, 1)

\* another transaction holds a write on the row (UPDATE waits for it)
RowLocked(c, id) ==
    \E o \in Callers \ {c} : \E i \in 1..Len(calls[o].pending) :
        calls[o].pending[i].row.id = id

\* another transaction holds an insert of the url (INSERT waits for it on
\* the unique index idx_crawl_pages_url)
UrlLocked(c, url) ==
    \E o \in Callers \ {c} : \E i \in 1..Len(calls[o].pending) :
        calls[o].pending[i].insert /\ calls[o].pending[i].row.url = url

InCall(c) == calls[c].pc \notin {"returned"}

\* with self._get_connection() as conn
Connect(c) ==
    /\ calls[c].pc = "connect"
    /\ calls' = [calls EXCEPT ![c].pc =
                    IF calls[c].docs # <<>> THEN "select_doc"
                    ELSE "commit_docs"]
    /\ UNCHANGED <<rows, nextId, cvars, op, args, ret, emb>>

\* SELECT id FROM crawl_pages WHERE url = %s AND (is_chunk IS NULL OR ...)
SelectDoc(c) ==
    LET page == calls[c].docs[calls[c].k]
        hit == FirstDoc(View(c), page.url)
    IN  /\ calls[c].pc = "select_doc"
        /\ calls' = [calls EXCEPT
                ![c].pc = "write_doc",
                ![c].existing = IF hit = 0 THEN 0 ELSE View(c)[hit].id,
                ![c].found_absent =
                    IF hit = 0 THEN @ \cup {page.url} ELSE @]
        /\ UNCHANGED <<rows, nextId, cvars, op, args, ret, emb>>

\* where the loop over the parent pages goes after a page
AfterDoc(c) ==
    IF calls[c].k < Len(calls[c].docs) THEN "select_doc" ELSE "commit_docs"

\* UPDATE crawl_pages SET ... WHERE id = %s of a parent page
UpdateDoc(c) ==
    LET page == calls[c].docs[calls[c].k]
        page_id == calls[c].existing
        old == View(c)[CHOOSE j \in 1..Len(View(c)) : View(c)[j].id = page_id]
    IN  /\ calls[c].pc = "write_doc"
        /\ page_id # 0
        /\ ~RowLocked(c, page_id)
        /\ calls' = [calls EXCEPT
                ![c].pc = AfterDoc(c),
                ![c].k = IF AfterDoc(c) = "select_doc" THEN @ + 1 ELSE 1,
                ![c].pending = Append(@, [insert |-> FALSE, row |->
                    [old EXCEPT !.title = page.title,
                                !.content = page.content,
                                !.embedding = page.embedding,
                                !.is_chunk = FALSE,
                                !.chunk_index = NoneIdx,
                                !.parent_id = NullId]]),
                ![c].page_ids = Append(@, page_id),
                ![c].parent_url_to_id =
                    [u \in DOMAIN @ \cup {page.url} |->
                        IF u = page.url THEN page_id ELSE @[u]]]
        /\ UNCHANGED <<rows, nextId, cvars, op, args, ret, emb>>

\* the exception of a statement leaves the with block: the transaction is
\* rolled back and add_pages returns []
Abort(c, phase) ==
    [calls[c] EXCEPT !.pc = "returned", !.pending = <<>>, !.ret = <<>>,
                     !.failed_in = phase, !.dropped = calls[c].pending]

\* INSERT INTO crawl_pages ... RETURNING id of a parent page; the unique
\* index on url rejects a url that a committed row or a row of this
\* transaction has
InsertDoc(c) ==
    LET page == calls[c].docs[calls[c].k]
        page_id == nextId
    IN  /\ calls[c].pc = "write_doc"
        /\ calls[c].existing = 0
        /\ ~UrlLocked(c, page.url)
        /\ nextId <= MaxId
        /\ nextId' = nextId + 1
        /\ IF UrlTaken(View(c), page.url)
           THEN calls' = [calls EXCEPT ![c] = Abort(c, "docs")]
           ELSE calls' = [calls EXCEPT
                ![c].pc = AfterDoc(c),
                ![c].k = IF AfterDoc(c) = "select_doc" THEN @ + 1 ELSE 1,
                ![c].pending = Append(@, [insert |-> TRUE, row |->
                    [id |-> page_id, site_id |-> calls[c].site,
                     url |-> page.url, title |-> page.title,
                     content |-> page.content, embedding |-> page.embedding,
                     is_chunk |-> FALSE, chunk_index |-> NoneIdx,
                     parent_id |-> NullId]]),
                ![c].page_ids = Append(@, page_id),
                ![c].parent_url_to_id =
                    [u \in DOMAIN @ \cup {page.url} |->
                        IF u = page.url THEN page_id ELSE @[u]]]
        /\ UNCHANGED <<rows, cvars, op, args, ret, emb>>

\* the first chunk from position k on whose parent url is in
\* parent_url_to_id ("if not parent_id: continue"), 0 if there is none
NextChunk(c, k) ==
    LET ok == { i \in k..Len(calls[c].chunks) :
                  ParentUrl(calls[c].chunks[i].url)
                      \in DOMAIN calls[c].parent_url_to_id }
    IN  IF ok = {} THEN 0 ELSE CHOOSE i \in ok : \A j \in ok : i <= j

\* a variant without the commit between the two loops: the writes of the
\* parent pages stay in the transaction
CommitDocsLater(c) ==
    /\ calls[c].pc = "commit_docs"
    /\ calls' = [calls EXCEPT
            ![c].k = NextChunk(c, 1),
            ![c].pc = IF NextChunk(c, 1) = 0 THEN "commit_chunks"
                      ELSE "select_chunk"]
    /\ UNCHANGED <<rows, nextId, cvars, op, args, ret, emb>>

\* conn.commit() after the parent pages
CommitDocs(c) ==
    /\ calls[c].pc = "commit_docs"
    /\ rows' = Apply(rows, calls[c].pending, 1)
    /\ calls' = [calls EXCEPT
            ![c].pending = <<>>,
            ![c].left = { calls[c].page_ids[i] :
                            i \in 1..Len(calls[c].page_ids) },
            ![c].k = NextChunk(c, 1),
            ![c].pc = IF NextChunk(c, 1) = 0 THEN "commit_chunks"
                      ELSE "select_chunk"]
    /\ UNCHANGED <<nextId, cvars, op, args, ret, emb>>

\* SELECT id ... WHERE url = %s AND is_chunk = TRUE AND chunk_index = %s
SelectChunk(c) ==
    LET chunk == calls[c].chunks[calls[c].k]
        hit == FirstChunk(View(c), chunk.url, chunk.chunk_index)
    IN  /\ calls[c].pc = "select_chunk"
        /\ calls' = [calls EXCEPT
                ![c].pc = "write_chunk",
                ![c].existing = IF hit = 0 THEN 0 ELSE View(c)[hit].id]
        /\ UNCHANGED <<rows, nextId, cvars, op, args, ret, emb>>

AfterChunk(c) ==
    IF NextChunk(c, calls[c].k + 1) = 0 THEN "commit_chunks"
    ELSE "select_chunk"

\* UPDATE crawl_pages SET ..., parent_id = %s WHERE id = %s of a chunk
UpdateChunk(c) ==
    LET chunk == calls[c].chunks[calls[c].k]
        chunk_id == calls[c].existing
        old == View(c)[CHOOSE j \in 1..Len(View(c)) : View(c)[j].id = chunk_id]
    IN  /\ calls[c].pc = "write_chunk"
        /\ chunk_id # 0
        /\ ~RowLocked(c, chunk_id)
        /\ calls' = [calls EXCEPT
                ![c].pc = AfterChunk(c),
                ![c].k = NextChunk(c, calls[c].k + 1),
                ![c].pending = Append(@, [insert |-> FALSE, row |->
                    [old EXCEPT !.title = chunk.title,
                                !.content = chunk.content,
                                !.embedding = chunk.embedding,
                                !.parent_id = calls[c].parent_url_to_id[
                                                 ParentUrl(chunk.url)]]]),
                ![c].page_ids = Append(@, chunk_id)]
        /\ UNCHANGED <<rows, nextId, cvars, op, args, ret, emb>>

\* INSERT INTO crawl_pages ... TRUE, %s, %s RETURNING id of a chunk
InsertChunk(c) ==
    LET chunk == calls[c].chunks[calls[c].k]
        chunk_id == nextId
    IN  /\ calls[c].pc = "write_chunk"
        /\ calls[c].existing = 0
        /\ ~UrlLocked(c, chunk.url)
        /\ nextId <= MaxId
        /\ nextId' = nextId + 1
        /\ IF UrlTaken(View(c), chunk.url)
           THEN calls' = [calls EXCEPT ![c] = Abort(c, "chunks")]
           ELSE calls' = [calls EXCEPT
                ![c].pc = AfterChunk(c),
                ![c].k = NextChunk(c, calls[c].k + 1),
                ![c].pending = Append(@, [insert |-> TRUE, row |->
                    [id |-> chunk_id, site_id |-> calls[c].site,
                     url |-> chunk.url, title |-> chunk.title,
                     content |-> chunk.content, embedding |-> chunk.embedding,
                     is_chunk |-> TRUE, chunk_index |-> chunk.chunk_index,
                     parent_id |-> calls[c].parent_url_to_id[
                                      ParentUrl(chunk.url)]]]),
                ![c].page_ids = Append(@, chunk_id)]
        /\ UNCHANGED <<rows, cvars, op, args, ret, emb>>

\* conn.commit() after the chunks, and "return page_ids"
CommitChunks(c) ==
    /\ calls[c].pc = "commit_chunks"
    /\ rows' = Apply(rows, calls[c].pending, 1)
    /\ calls' = [calls EXCEPT
            ![c].pending = <<>>,
            ![c].left = { calls[c].page_ids[i] :
                            i \in 1..Len(calls[c].page_ids) },
            ![c].ret = calls[c].page_ids,
            ![c].pc = "returned"]
    /\ UNCHANGED <<nextId, cvars, op, args, ret, emb>>

\* the phase a call is in
PhaseOf(c) ==
    IF calls[c].pc \in {"connect", "select_doc", "write_doc", "commit_docs"}
    THEN "docs" ELSE "chunks"

\* a variant in which the writes of the transaction stay when it fails
FailKeepingWrites(c) ==
    /\ InCall(c)
    /\ rows' = Apply(rows, calls[c].pending, 1)
    /\ calls' = [calls EXCEPT ![c] = Abort(c, PhaseOf(c))]
    /\ UNCHANGED <<nextId, cvars, op, args, ret, emb>>

\* a statement, a commit or the connection fails (the store goes away, a
\* statement is rejected): "except Exception: return []"
Fail(c) ==
    /\ InCall(c)
    /\ calls' = [calls EXCEPT ![c] = Abort(c, PhaseOf(c))]
    /\ UNCHANGED <<rows, nextId, cvars, op, args, ret, emb>>

CallsInit ==
    /\ \E st \in { [tbl |-> <<>>, next |-> 1], CrawledStore } :
          rows = st.tbl /\ nextId = st.next
    /\ op = "none"
    /\ args = <<>>
    /\ ret = <<>>
    /\ content = <<>>
    /\ max_tokens = 1
    /\ overlap_tokens = 0
    /\ tokenizer_ok = TRUE
    /\ result = <<>>
    /\ cstage = "idle"
    /\ emb = <<>>
    /\ calls \in [Callers -> { NewCall(CallBatches[b]) : b \in 1..4 }]

CallsNext ==
    \E c \in Callers :
        \/ Connect(c)
        \/ SelectDoc(c)
        \/ UpdateDoc(c)
        \/ InsertDoc(c)
        \/ CommitDocs(c)
        \/ SelectChunk(c)
        \/ UpdateChunk(c)
        \/ InsertChunk(c)
        \/ CommitChunks(c)
        \/ Fail(c)

SpecCalls == CallsInit /\ [][CallsNext]_vars

(***************************************************************************)
(* search with the embedding service, step by step.  generate_embedding    *)
(* asks the service; on a rate-limit answer it sleeps and calls itself,    *)
(* one interpreter frame deeper each time.  The program counts no          *)
(* attempts: the recursion ends when the interpreter refuses a further     *)
(* frame (RecursionError, an Exception whose message does not hold "rate   *)
(* limit", so every frame re-raises it and search catches it).  The        *)
(* queries are shorter than the token limit of the embedding model, so     *)
(* the truncating branch of generate_embedding is not taken.               *)
(***************************************************************************)
\* the frames of generate_embedding the interpreter allows (1000 less the
\* callers' frames in the default configuration)
RecursionLimit == 3

\* what the service answers to one request
Answers == Embeddings \cup {"empty", "nonnumeric", "rate_limit", "error"}

\* a call search(query, use_embedding, limit=limit) against a service that
\* answers every request with a rate-limit error ("limited") or as it
\* likes ("free")
NewSearch(query, use_embedding, limit, service, up) ==
    [pc |-> "search", query |-> query, use_embedding |-> use_embedding,
     limit |-> limit, service |-> service, db_up |-> up,
     depth |-> 0, attempts |-> 0, outcome |-> "none"]

EmbedInit ==
    /\ \E st \in { [tbl |-> <<>>, next |-> 1], CrawledStore } :
          rows = st.tbl /\ nextId = st.next
    /\ op = "none"
    /\ args = <<>>
    /\ ret = <<>>
    /\ content = <<>>
    /\ max_tokens = 1
    /\ overlap_tokens = 0
    /\ tokenizer_ok = TRUE
    /\ result = <<>>
    /\ cstage = "idle"
    /\ calls = <<>>
    /\ \E query \in Queries, use_embedding \in BOOLEAN, limit \in 1..MaxLimit,
          service \in {"limited", "free"}, up \in BOOLEAN :
          emb = NewSearch(query, use_embedding, limit, service, up)

\* search: "if use_embedding: try: generate_embedding(query)"
SearchCall ==
    /\ emb.pc = "search"
    /\ emb' = IF emb.use_embedding
              THEN [emb EXCEPT !.pc = "generate", !.depth = 1]
              ELSE [emb EXCEPT !.pc = "finish", !.outcome = "raise"]
    /\ UNCHANGED <<cvars, svars, calls>>

\* generate_embedding: a blank text raises ValueError
GenerateEmbedding ==
    /\ emb.pc = "generate"
    /\ emb' = IF StripNonEmpty(emb.query)
              THEN [emb EXCEPT !.pc = "request"]
              ELSE [emb EXCEPT !.pc = "finish", !.outcome = "raise"]
    /\ UNCHANGED <<cvars, svars, calls>>

\* client.embeddings.create: the embedding is returned through the frames,
\* an error without "rate limit" is re-raised through them
EmbeddingsCreate ==
    /\ emb.pc = "request"
    /\ \E a \in Answers :
          /\ emb.service = "limited" => a = "rate_limit"
          /\ emb' = [emb EXCEPT
                       !.attempts = Min(emb.attempts + 1, RecursionLimit + 1),
                       !.pc = IF a = "rate_limit" THEN "sleep" ELSE "finish",
                       !.outcome = IF a = "rate_limit" THEN "none"
                                   ELSE IF a = "error" THEN "raise" ELSE a]
    /\ UNCHANGED <<cvars, svars, calls>>

\* a variant that asks again in the same frame
RetryInPlace ==
    /\ emb.pc = "sleep"
    /\ emb' = [emb EXCEPT !.pc = "generate"]
    /\ UNCHANGED <<cvars, svars, calls>>

\* "time.sleep(5); return self.generate_embedding(text)"
RetryAfterSleep ==
    /\ emb.pc = "sleep"
    /\ emb.depth < RecursionLimit
    /\ emb' = [emb EXCEPT !.pc = "generate", !.depth = emb.depth + 1]
    /\ UNCHANGED <<cvars, svars, calls>>

\* the same statement when the interpreter allows no further frame
RecursionError ==
    /\ emb.pc = "sleep"
    /\ emb.depth >= RecursionLimit
    /\ emb' = [emb EXCEPT !.pc = "finish", !.outcome = "raise"]
    /\ UNCHANGED <<cvars, svars, calls>>

\* the rest of search with what generate_embedding gave: what the call
\* returns is a function of the store, which it does not change, and of
\* that outcome
SearchResult ==
    search(rows, emb.query, emb.use_embedding, 500, emb.limit, NullId,
           [db_up |-> emb.db_up, percent_ok |-> TRUE, embed |-> emb.outcome,
            vector_ok |-> TRUE])

SearchReturn ==
    /\ emb.pc = "finish"
    /\ emb' = [emb EXCEPT !.pc = "returned"]
    /\ UNCHANGED <<cvars, svars, calls>>

EmbedNext ==
    \/ SearchCall
    \/ GenerateEmbedding
    \/ EmbeddingsCreate
    \/ RetryAfterSleep
    \/ RecursionError
    \/ SearchReturn

\* search runs on one thread: the step it is at is taken (the sleep ends,
\* the request is answered)
SpecEmbed == EmbedInit /\ [][EmbedNext]_vars /\ WF_vars(EmbedNext)

(***************************************************************************)
(* update_pages: the Documents of a site are read back from the store,     *)
(* enhanced and written with add_pages.  The summary of a page is not in   *)
(* the model: which Documents lack one is an input.                        *)
(***************************************************************************)
\* the code points of the characters of the urls
CharOrd(c) ==
    CASE c = "hash" -> 35 [] c = "dot" -> 46 [] c = "W" -> 87
      [] c = "w" -> 119 [] c = "x" -> 120 [] OTHER -> 0

\* ORDER BY url
RECURSIVE UrlLess(_, _, _)
UrlLess(a, b, i) ==
    IF i > Len(b) THEN FALSE
    ELSE IF i > Len(a) THEN TRUE
    ELSE IF CharOrd(a[i]) # CharOrd(b[i]) THEN CharOrd(a[i]) < CharOrd(b[i])
    ELSE UrlLess(a, b, i + 1)

\* the dictionary made of one row: id, site_id, url, title, content,
\* summary and metadata are selected; add_pages reads the keys that are
\* not there with their defaults (embedding [], is_chunk False)
ReadBack(r) ==
    [url |-> r.url, title |-> r.title, content |-> r.content,
     embedding |-> NoEmbedding, is_chunk |-> FALSE, chunk_index |-> NoneIdx]

\* SupabaseClient.get_pages_by_site_id(site_id, limit)
get_pages_by_site_id(tbl, site_id, limit) ==
    LET docs == SelectSeq(tbl, LAMBDA r : r.site_id = site_id /\ ~r.is_chunk)
        keys == [i \in 1..Len(docs) |->
                    Cardinality({ j \in 1..Len(docs) :
                                    UrlLess(docs[j].url, docs[i].url, 1) })]
        sorted == Take(StableSort(docs, keys), limit)
    IN  [i \in 1..Len(sorted) |-> ReadBack(sorted[i])]

\* ContentEnhancer.enhance_pages_async: a missing title is generated, a
\* title that is there is kept
GeneratedTitle == <<"W">>

enhance_pages_async(pages) ==
    [i \in 1..Len(pages) |->
        [pages[i] EXCEPT !.title = IF @ = <<>> THEN GeneratedTitle ELSE @]]

\* one iteration of "for site in sites"
UpdateSite(st, site_id, limit, force, lacking) ==
    LET pages == get_pages_by_site_id(st.tbl, site_id, limit)
        pages_to_update ==
            IF force THEN pages
            ELSE SelectSeq(pages, LAMBDA q : q.title = <<>> \/ q.url \in lacking)
    IN  IF pages = <<>> \/ pages_to_update = <<>> THEN st
        ELSE add_pages(st.tbl, st.next, site_id,
                       enhance_pages_async(pages_to_update), TRUE)

\* update_pages(site_id, limit, force)
RECURSIVE update_pages(_, _, _, _, _, _)
update_pages(st, sites, k, limit, force, lacking) ==
    IF k > Len(sites) THEN st
    ELSE update_pages(UpdateSite(st, sites[k], limit, force, lacking),
                      sites, k + 1, limit, force, lacking)

\* the stores update_pages can find: one or two batches were added
UpdateStores ==
    { add_pages(st.tbl, st.next, Batches[b].site, Batches[b].pages, TRUE) :
        st \in { add_pages(<<>>, 1, Batches[a].site, Batches[a].pages, TRUE) :
                   a \in 1..Len(Batches) },
        b \in 1..Len(Batches) }

UpdateInit ==
    /\ \E st \in UpdateStores : rows = st.tbl /\ nextId = st.next
    /\ op = "none"
    /\ args = <<>>
    /\ ret = <<>>
    /\ content = <<>>
    /\ max_tokens = 1
    /\ overlap_tokens = 0
    /\ tokenizer_ok = TRUE
    /\ result = <<>>
    /\ cstage = "idle"
    /\ NoCalls

\* site_id given: that site; site_id None: every site
UpdatePages ==
    \E sites \in {<<1>>, <<2>>, <<1, 2>>}, limit \in 1..MaxLimit,
       force \in BOOLEAN, lacking \in SUBSET {Url1, Url2} :
        LET st == update_pages([tbl |-> rows, next |-> nextId], sites, 1,
                               limit, force, lacking)
        IN  /\ op = "none"
            /\ force => lacking = {}
            /\ rows' = st.tbl
            /\ nextId' = st.next
            /\ op' = "update_pages"
            /\ args' = [sites |-> sites, limit |-> limit, force |-> force,
                        lacking |-> lacking, before |-> rows]
            /\ ret' = <<>>
            /\ UNCHANGED <<cvars, xvars>>

UpdateNext == UpdatePages \/ Return

SpecUpdate == UpdateInit /\ [][UpdateNext]_vars

(***************************************************************************)
(* Claims about chunk_content, under SpecChunk.                            *)
(***************************************************************************)
InputPage == Page(PageUrl, content)

ChunkRecords == { i \in 1..Len(result) : result[i].is_chunk }

\* C1: a content of at most max_tokens tokens yields exactly one record, the
\* input document with is_chunk = false and its content unchanged.
C1_SmallContentSingleRecord ==
    (cstage = "done" /\ count_tokens(content) <= max_tokens)
        => result = <<InputPage>>

\* C2: every record with is_chunk = true has at most max_tokens tokens.
C2_ChunkTokenBound ==
    cstage = "done" =>
        \A i \in ChunkRecords : count_tokens(result[i].content) <= max_tokens

\* every token of the section lies in a record that holds a window of it
TokensCovered(section, records) ==
    LET toks == Encode(section)
    IN  \A j \in 1..Len(toks) :
            \E i \in records : \E a \in 1..j : \E b \in j..Len(toks) :
                result[i].content = Decode(SubSeq(toks, a, b))

SectionCovered(section, records) ==
    \/ \E i \in records : Contains(result[i].content, section)
    \/ TokensCovered(section, records)

\* C3: for a non-empty content the returned chunks cover every section of
\* it (the records looked at are the chunks, or the single record of an
\* unchunked document).
C3_ChunksCoverContent ==
    (cstage = "done" /\ content # <<>>) =>
        LET records == IF ChunkRecords # {} THEN ChunkRecords
                       ELSE 1..Len(result)
            sections == Sections(content)
        IN  \A k \in 1..Len(sections) : SectionCovered(sections[k], records)

\* coverage does hold whenever overlap_tokens < max_tokens
CoverWhenOverlapBelowMax ==
    (cstage = "done" /\ content # <<>> /\ overlap_tokens < max_tokens) =>
        LET records == IF ChunkRecords # {} THEN ChunkRecords
                       ELSE 1..Len(result)
            sections == Sections(content)
        IN  \A k \in 1..Len(sections) : SectionCovered(sections[k], records)

\* a step of the try block of chunk_content raises: the tokenizer, or the
\* hard split of an oversized section when max_tokens = overlap_tokens
StepRaises ==
    /\ content # <<>>
    /\ \/ ~tokenizer_ok
       \/ ChunkLoop(InputPage, Sections(content), 1, LoopInit, max_tokens,
                    overlap_tokens).raised

\* C11: whenever a step of chunk_content raises, a failure of the
\* tokenizer included, chunk_content does not raise: it returns the list
\* of the original document alone, is_chunk = false, content unchanged.
C11_FallbackOnAnyFailure ==
    (cstage \in {"done", "raised"} /\ StepRaises) =>
        (cstage = "done" /\ result = <<InputPage>>)

\* the same for the failures that leave the tokenizer working
FallbackWhenTokenizerWorks ==
    (cstage \in {"done", "raised"} /\ StepRaises /\ tokenizer_ok) =>
        (cstage = "done" /\ result = <<InputPage>>)

\* a failure with the tokenizer working: the split of an oversized section
StepRaisesTokenizerWorks == cstage = "done" /\ StepRaises /\ tokenizer_ok

\* the chunk records of the output, in the order of the output
ChunkSeq == SelectSeq(result, LAMBDA r : r.is_chunk)

EndsWith(text, tail) ==
    /\ Len(tail) <= Len(text)
    /\ SubSeq(text, Len(text) - Len(tail) + 1, Len(text)) = tail

TokenWindow(text, section) ==
    LET toks == Encode(section)
    IN  \E a \in 1..Len(toks) : \E b \in a..Len(toks) :
            text = Decode(SubSeq(toks, a, b))

\* the sections a chunk can have been closed at: a greedy chunk ends with
\* the last section added to it, a chunk of a hard split is a window of
\* the tokens of an oversized section
ClosedAt(text) ==
    LET sections == Sections(content)
    IN  { k \in 1..Len(sections) :
            \/ EndsWith(text, sections[k])
            \/ /\ count_tokens(sections[k]) > max_tokens
               /\ TokenWindow(text, sections[k]) }

\* the chunks from the i-th on can be assigned sections, each one its own
\* or a later one than the chunk before it, starting at section lo
RECURSIVE InDocumentOrder(_, _)
InDocumentOrder(i, lo) ==
    IF i > Len(ChunkSeq) THEN TRUE
    ELSE LET at == { k \in ClosedAt(ChunkSeq[i].content) : k >= lo }
         IN  /\ at # {}
             /\ InDocumentOrder(i + 1, CHOOSE k \in at : \A j \in at : k <= j)

\* C16: in an output that contains chunks the chunk records are in
\* document order, and the k-th of them (k from 0) has chunk_index = k and
\* the url of the parent followed by '#chunk-k', whichever of the greedy
\* and the hard-split branches produced it.
C16_ChunkIndexContiguous ==
    (cstage = "done" /\ ChunkRecords # {}) =>
        /\ \A k \in 1..Len(ChunkSeq) :
              /\ ChunkSeq[k].chunk_index = k - 1
              /\ ChunkSeq[k].url =
                    PageUrl \o <<"hash", "chunk-">> \o Digits(k - 1)
        /\ InDocumentOrder(1, 1)

\* an output of at least three chunks from a content with an oversized
\* section (hard split) and a section that fits (greedy)
C16_Witness ==
    /\ cstage = "done"
    /\ Len(ChunkSeq) >= 3
    /\ \E k \in 1..Len(Sections(content)) :
          count_tokens(Sections(content)[k]) > max_tokens
    /\ \E k \in 1..Len(Sections(content)) :
          count_tokens(Sections(content)[k]) <= max_tokens

\* C17: in every output of chunk_content the first record is the only one
\* with is_chunk = false, its content is the input content and its
\* chunk_index is null; every record after it has is_chunk = true.
C17_ParentFirstAndOnly ==
    cstage = "done" =>
        /\ Len(result) >= 1
        /\ ~result[1].is_chunk
        /\ result[1].content = content
        /\ result[1].chunk_index = NoneIdx
        /\ \A i \in 2..Len(result) : result[i].is_chunk

\* an output of the parent and at least two chunks, none of them with the
\* whole content
C17_Witness ==
    /\ cstage = "done"
    /\ Len(result) >= 3
    /\ \A i \in 2..Len(result) : result[i].content # content

(***************************************************************************)
(* Claims about hybrid_search, under Spec.  search() hands the list that   *)
(* hybrid_search returns to its caller with a snippet added to each        *)
(* record, so the urls and similarities of ret.rows are those of           *)
(* hybrid_search.                                                          *)
(***************************************************************************)
\* a search in hybrid mode whose query embedding is valid, the store up
HybridCall ==
    /\ op = "search"
    /\ args.use_embedding
    /\ args.env.embed \in Embeddings
    /\ args.env.db_up

\* what the vector search and the text search of the call find
VectorCandidates ==
    search_by_embedding(rows, args.env.embed, (args.threshold * 8) \div 10,
                        args.limit * 2, args.site_id, args.env)

TextCandidates ==
    search_by_text(rows, args.query, args.limit * 2, args.site_id, args.env).rows

UrlsOf(rs) == { rs[i].url : i \in 1..Len(rs) }

UnionUrls == UrlsOf(VectorCandidates) \cup UrlsOf(TextCandidates)

VectorScoreOf(u) ==
    LET V == VectorCandidates
    IN  V[CHOOSE i \in 1..Len(V) : V[i].url = u].similarity

FoundByBoth(u) == u \in UrlsOf(VectorCandidates) \cap UrlsOf(TextCandidates)

\* the final similarity of a member of the union: 0.5 for a record only
\* the text search found, the vector similarity for one only the vector
\* search found, the larger of the two for one both found
FinalSimilarity(u) ==
    IF u \notin UrlsOf(VectorCandidates) THEN 500
    ELSE IF u \in UrlsOf(TextCandidates) THEN Max(VectorScoreOf(u), 500)
    ELSE VectorScoreOf(u)

\* H is the first `limit` records of the union by non-increasing final
\* similarity
TopOfUnion(H, limit) ==
    /\ Len(H) = Min(limit, Cardinality(UnionUrls))
    /\ \A i \in 1..Len(H) :
          /\ H[i].url \in UnionUrls
          /\ "similarity" \in H[i].keys
          /\ H[i].similarity = FinalSimilarity(H[i].url)
    /\ \A i, j \in 1..Len(H) :
          i < j => (H[i].url # H[j].url /\ H[i].similarity >= H[j].similarity)
    /\ \A u \in UnionUrls \ UrlsOf(H) :
          \A i \in 1..Len(H) : H[i].similarity >= FinalSimilarity(u)

\* H is the first `limit` vector candidates as the vector search gave them
VectorAlone(H, limit) ==
    LET V == Take(VectorCandidates, limit)
    IN  /\ Len(H) = Len(V)
        /\ \A i \in 1..Len(H) :
              /\ H[i].url = V[i].url
              /\ H[i].similarity = V[i].similarity
              /\ "text_score" \notin H[i].keys

\* C4 (as claimed): in hybrid mode with a valid query embedding the
\* returned list is the first `limit` records, by non-increasing final
\* similarity, of the URL-keyed union of the vector and the text
\* candidates, a text-only record scoring 0.5, and the text search is
\* consulted however many vector candidates were found.
C4_TopOfUnionOnEveryCall ==
    HybridCall => TopOfUnion(ret.rows, args.limit)

\* C4 (amended): the returned list is that top of the union when the vector
\* search found fewer than `limit` candidates; when it found `limit` or
\* more, the text search is not consulted and the first `limit` vector
\* candidates are returned with their vector similarity.
C4_TopOfUnionWhenFewVector ==
    HybridCall =>
        IF Len(VectorCandidates) >= args.limit
        THEN VectorAlone(ret.rows, args.limit)
        ELSE TopOfUnion(ret.rows, args.limit)

\* a merged result holding a record of the vector search and one that only
\* the text search found
C4_Witness ==
    /\ HybridCall
    /\ VectorCandidates # <<>>
    /\ Len(VectorCandidates) < args.limit
    /\ \E i, j \in 1..Len(ret.rows) :
          /\ ret.rows[i].url \in UrlsOf(VectorCandidates)
          /\ ret.rows[j].url \notin UrlsOf(VectorCandidates)

\* hybrid_search merges: the vector search found fewer than `limit`
MergedCall == HybridCall /\ Len(VectorCandidates) < args.limit

C14_BothFoundAtLeastHalf ==
    HybridCall =>
        \A i \in 1..Len(ret.rows) :
            FoundByBoth(ret.rows[i].url) =>
                /\ ret.rows[i].similarity >= VectorScoreOf(ret.rows[i].url)
                /\ ret.rows[i].similarity >= 500

\* C14 (amended): such a record has a final similarity of at least v; it
\* is at least 0.5 when the vector search found fewer than `limit`
\* candidates, and it is v itself when it found `limit` or more.
C14_BothFoundAtLeastVector ==
    HybridCall =>
        \A i \in 1..Len(ret.rows) :
            FoundByBoth(ret.rows[i].url) =>
                /\ ret.rows[i].similarity >= VectorScoreOf(ret.rows[i].url)
                /\ IF Len(VectorCandidates) < args.limit
                   THEN ret.rows[i].similarity >= 500
                   ELSE ret.rows[i].similarity =
                            VectorScoreOf(ret.rows[i].url)

\* a returned record both searches found whose final similarity is above
\* its vector similarity
C14_Witness ==
    /\ HybridCall
    /\ \E i \in 1..Len(ret.rows) :
          /\ FoundByBoth(ret.rows[i].url)
          /\ ret.rows[i].similarity > VectorScoreOf(ret.rows[i].url)

\* C15: the list a hybrid-mode search returns has at most `limit` records,
\* no two of them share a url, every record carries a similarity, and the
\* similarity never increases from one record to the next.
C15_HybridListOrdered ==
    HybridCall =>
        /\ Len(ret.rows) <= args.limit
        /\ \A i \in 1..Len(ret.rows) : "similarity" \in ret.rows[i].keys
        /\ \A i, j \in 1..Len(ret.rows) :
              i < j => /\ ret.rows[i].url # ret.rows[j].url
                       /\ ret.rows[i].similarity >= ret.rows[j].similarity

\* a merged list of two records, the first with a higher similarity than
\* the second, cut from a union of more than `limit` records
C15_Witness ==
    /\ MergedCall
    /\ Cardinality(UnionUrls) > args.limit
    /\ Len(ret.rows) = 2
    /\ ret.rows[1].similarity > ret.rows[2].similarity

AnswerWhenUp ==
    search(rows, args.query, args.use_embedding, args.threshold, args.limit,
           args.site_id, [args.env EXCEPT !.db_up = TRUE])

C7_SameShape ==
    op = "search" =>
        \A i \in 1..Len(ret.rows) :
            {"snippet", "similarity"} \subseteq ret.rows[i].keys

\* a text-only search, the store up and the driver passing every query
TextCall ==
    /\ op = "search"
    /\ ~args.use_embedding
    /\ args.env.db_up
    /\ args.env.percent_ok

\* the query is literally present in a stored title or content, within
\* the site filter
LiterallyPresent ==
    \E i \in 1..Len(rows) :
        /\ SiteOk(rows[i], args.site_id)
        /\ \/ Contains(rows[i].title, args.query)
           \/ Contains(rows[i].content, args.query)

NoTitleNoFullText ==
    /\ TitleQuery(rows, args.query, args.limit, args.site_id) = <<>>
    /\ FullTextQuery(rows, args.query, args.limit, args.site_id) = <<>>

\* C8: for every query, domain-like ones included, when the title match
\* and the full-text query return no rows the text search goes on to the
\* substring match, so a query literally present in a stored title or
\* content (within the site filter) yields a non-empty result.
C8_SubstringFallback ==
    (TextCall /\ NoTitleNoFullText /\ LiterallyPresent) => ret.rows # <<>>

\* the same for the queries without a dotted host-like token
SubstringFallbackWhenNoDomain ==
    (TextCall /\ NoTitleNoFullText /\ LiterallyPresent
        /\ QueryDomains(args.query) = <<>>) => ret.rows # <<>>

\* the dotted host-like tokens of a query: its words with a dot between
\* two letters or digits
HostTokens(query) ==
    { word \in Lexemes(query) :
        \E i \in 2..(Len(word) - 1) :
            word[i] = "dot" /\ word[i - 1] \in Alnum /\ word[i + 1] \in Alnum }

\* the stored documents whose url contains a host token of the query
DomainDocs ==
    { rows[i].url : i \in { j \in 1..Len(rows) :
        /\ ~rows[j].is_chunk
        /\ SiteOk(rows[j], args.site_id)
        /\ \E h \in HostTokens(args.query) : Contains(Lower(rows[j].url), h) } }

\* C9: for a query with a dotted host-like token the text search returns
\* the stored documents whose url contains that domain (as many of them as
\* `limit` allows), also when the full-text match finds nothing.
C9_DomainDocsReturned ==
    (TextCall /\ HostTokens(args.query) # {}) =>
        Cardinality(DomainDocs \cap UrlsOf(ret.rows))
            >= Min(args.limit, Cardinality(DomainDocs))

\* the stored rows whose title contains the query, case-insensitively,
\* within the site filter
TitleMatching ==
    { i \in 1..Len(rows) :
        ILike(rows[i].title, args.query) /\ SiteOk(rows[i], args.site_id) }

\* the list is not empty and holds only rows of the title match (their
\* title contains the query, their rank is that of the title match),
\* Documents before Chunks
OnlyTitleRows(rs) ==
    /\ rs # <<>>
    /\ \A i \in 1..Len(rs) :
          /\ ILike(rs[i].title, args.query)
          /\ rs[i].rank = TitleRank
    /\ \A i, j \in 1..Len(rs) : (i < j /\ rs[i].is_chunk) => rs[j].is_chunk

\* C18: the text search tries the title match first: if the title of at
\* least one row contains the query (within the site filter), the rows of
\* the title match are returned and only they, Documents before Chunks;
\* the full-text and the substring strategies contribute no row.
C18_TitleMatchFirst ==
    (TextCall /\ TitleMatching # {}) => OnlyTitleRows(ret.rows)

\* the same for the queries without a dotted host-like token
TitleMatchFirstWhenNoDomain ==
    (TextCall /\ TitleMatching # {} /\ QueryDomains(args.query) = <<>>)
        => OnlyTitleRows(ret.rows)

\* a title match that leaves out rows the full-text query would return
TitleMatchShadowsFullText ==
    /\ TextCall /\ TitleMatching # {} /\ QueryDomains(args.query) = <<>>
    /\ args.query # <<>>
    /\ \E i, j \in 1..Len(ret.rows) :
          ~ret.rows[i].is_chunk /\ ret.rows[j].is_chunk
    /\ \E i \in 1..Len(rows) :
          /\ FtsMatch(rows[i], args.query)
          /\ i \notin TitleMatching

\* a domain-like query returns a row whose title does not contain it while
\* the title of another row does
DomainBeforeTitle ==
    /\ TextCall /\ TitleMatching # {}
    /\ \E i \in 1..Len(ret.rows) : ~ILike(ret.rows[i].title, args.query)

(***************************************************************************)
(* Claims about add_pages, under Spec.                                     *)
(***************************************************************************)
\* the chunk pages[k] of the batch is in the store, its parent_id the id of
\* the Document of its parent url
ChunkWritten(k) ==
    LET c == args.pages[k]
        parent == FirstDoc(rows, ParentUrl(c.url))
    IN  /\ parent # 0
        /\ \E i \in 1..Len(rows) :
              /\ rows[i].url = c.url
              /\ rows[i].is_chunk
              /\ rows[i].chunk_index = c.chunk_index
              /\ rows[i].content = c.content
              /\ rows[i].parent_id = rows[parent].id

ParentInBatch(k) ==
    \E j \in 1..Len(args.pages) :
        /\ ~args.pages[j].is_chunk
        /\ args.pages[j].url = ParentUrl(args.pages[k].url)

ParentInStore(k) == FirstDoc(args.before, ParentUrl(args.pages[k].url)) # 0

\* C10: add_pages drops a chunk only if its parent Document is neither in
\* the batch nor already in the store: a chunk whose parent was stored by
\* an earlier batch and is absent from this one is written with that
\* Document's id as parent_id.
C10_ChunkOfStoredParentWritten ==
    (op = "add_pages" /\ args.db_up) =>
        \A k \in 1..Len(args.pages) :
            (args.pages[k].is_chunk /\ (ParentInBatch(k) \/ ParentInStore(k)))
                => ChunkWritten(k)

\* the same for the chunks whose parent Document is in the batch
ChunkOfBatchParentWritten ==
    (op = "add_pages" /\ args.db_up) =>
        \A k \in 1..Len(args.pages) :
            (args.pages[k].is_chunk /\ ParentInBatch(k)) => ChunkWritten(k)

\* the chunk pages[k] of the batch has a parent url that no batch stored:
\* no Document of it is in this batch or in the store
UnresolvableChunk(k) ==
    /\ args.pages[k].is_chunk
    /\ ~ParentInBatch(k)
    /\ ~ParentInStore(k)

UrlStored(url) == \E i \in 1..Len(rows) : rows[i].url = url

\* the Document pages[k] of the batch is in the store with its content
DocumentWritten(k) ==
    \E i \in 1..Len(rows) :
        /\ rows[i].url = args.pages[k].url
        /\ ~rows[i].is_chunk
        /\ rows[i].content = args.pages[k].content

\* C19: when a batch holds a chunk whose parent url was never stored, in
\* this batch or an earlier one, that chunk is not stored, the batch is
\* not aborted (its Documents are stored), and every other chunk of the
\* batch whose parent is resolvable, from the batch or from the store, is
\* stored.
C19_UnresolvableChunkSkipped ==
    (op = "add_pages" /\ args.db_up
        /\ \E k \in 1..Len(args.pages) : UnresolvableChunk(k)) =>
        \A k \in 1..Len(args.pages) :
            /\ UnresolvableChunk(k) => ~UrlStored(args.pages[k].url)
            /\ ~args.pages[k].is_chunk => DocumentWritten(k)
            /\ (args.pages[k].is_chunk
                  /\ (ParentInBatch(k) \/ ParentInStore(k))) => ChunkWritten(k)

\* the same with "resolvable" read as: the parent Document is in the batch
UnresolvableSkippedBatchChunksKept ==
    (op = "add_pages" /\ args.db_up
        /\ \E k \in 1..Len(args.pages) : UnresolvableChunk(k)) =>
        \A k \in 1..Len(args.pages) :
            /\ UnresolvableChunk(k) => ~UrlStored(args.pages[k].url)
            /\ ~args.pages[k].is_chunk => DocumentWritten(k)
            /\ (args.pages[k].is_chunk /\ ParentInBatch(k)) => ChunkWritten(k)

\* a batch with a chunk that is skipped and a chunk that is stored
SkippedAndStoredInOneBatch ==
    /\ op = "add_pages" /\ args.db_up
    /\ \E k, j \in 1..Len(args.pages) :
          /\ UnresolvableChunk(k)
          /\ args.pages[j].is_chunk /\ ChunkWritten(j)
          /\ UrlStored(args.pages[j].url) /\ ~UrlStored(args.pages[k].url)

\* C20: after any sequence of add_pages calls, re-crawls and batches that
\* list a url twice included, the store holds at most one Document row
\* per url and at most one Chunk row per (url, chunk_index), and storing
\* the batch of a call that reached the store a second time changes no
\* row count.
C20_OneRowPerKey ==
    /\ \A i, j \in 1..Len(rows) :
          (i # j /\ rows[i].url = rows[j].url) =>
              /\ rows[i].is_chunk # rows[j].is_chunk
              /\ rows[i].is_chunk => rows[i].chunk_index # rows[j].chunk_index
    /\ (op = "add_pages" /\ args.db_up) =>
          Len(add_pages(rows, nextId, args.site_id, args.pages, TRUE).tbl)
              = Len(rows)

\* a re-crawl: a batch that lists a url twice has updated the Document of
\* that url in place, in a store that also holds chunks
C20_Witness ==
    /\ op = "add_pages" /\ args.db_up
    /\ Len(rows) = Len(args.before)
    /\ rows # args.before
    /\ \E j, k \in 1..Len(args.pages) :
          j < k /\ args.pages[j].url = args.pages[k].url
    /\ \E i \in 1..Len(rows) : rows[i].is_chunk

(***************************************************************************)
(* Claims about the fallbacks of search, under Spec.                       *)
(***************************************************************************)
\* the stored rows a result list stands for
IdsOf(rs) == [i \in 1..Len(rs) |-> rs[i].id]

\* what the text search yields for the query, limit and site_id of the call
TextPipeline ==
    search_by_text(rows, args.query, args.limit, args.site_id, args.env)

\* a hybrid-mode call whose embedder fails or whose vector query fails
VectorSideFails ==
    /\ op = "search"
    /\ args.use_embedding
    /\ args.env.embed \notin Embeddings \/ ~args.env.vector_ok

\* C12: when the embedder raises or returns an empty or non-numeric
\* vector, or the vector query hits a database error, search in hybrid
\* mode raises nothing and returns the records the text search yields for
\* the same query, limit and site_id.
C12_VectorFailureFallsBackToText ==
    VectorSideFails =>
        /\ ~ret.raised
        /\ IdsOf(ret.rows) = IdsOf(TextPipeline.rows)

\* the vector query failed where it would have found records, and the text
\* search found more than `limit` among its limit * 2 candidates
C12_Witness ==
    /\ VectorSideFails
    /\ args.env.embed \in Embeddings
    /\ ret.rows # <<>>
    /\ Len(TextCandidates) > args.limit
    /\ search_by_embedding(rows, args.env.embed, (args.threshold * 8) \div 10,
                           args.limit * 2, args.site_id,
                           [args.env EXCEPT !.vector_ok = TRUE]) # <<>>

\* C13: for every query (empty, punctuation-only and domain-like ones
\* included), both values of use_embedding and every state of the store
\* that add_pages reaches, search returns a list and raises nothing,
\* provided the store can be reached.
C13_SearchReturnsList ==
    (op = "search" /\ args.env.db_up) =>
        /\ ~ret.raised
        /\ DOMAIN ret.rows = 1..Len(ret.rows)

\* a search for a domain-like query whose domain query the driver rejects,
\* on a store that holds rows
C13_Witness ==
    /\ op = "search"
    /\ args.env.db_up
    /\ ~args.env.percent_ok
    /\ QueryDomains(args.query) # <<>>
    /\ rows # <<>>

(***************************************************************************)
(* Claims about the statements of add_pages, under SpecCalls.              *)
(***************************************************************************)
\* call c has passed the commit of its parent pages and is in its chunk loop
InChunkLoop(c) ==
    calls[c].pc \in {"select_chunk", "write_chunk", "commit_chunks"}

\* the committed table has a Document row with the id
VisibleDocument(id) ==
    \E j \in 1..Len(rows) : rows[j].id = id /\ ~rows[j].is_chunk

\* C21: every Document write of a batch is committed before the first
\* Chunk write of the batch is issued (in the chunk loop the transaction
\* holds chunk writes only and the Documents of the batch are committed
\* rows), and at every moment each committed Chunk row has a parent_id
\* that is the id of a committed Document row.
C21_ParentsCommittedBeforeChunks ==
    /\ \A c \in Callers : InChunkLoop(c) =>
          /\ \A i \in 1..Len(calls[c].pending) :
                calls[c].pending[i].row.is_chunk
          /\ \A i \in 1..Len(calls[c].docs) :
                /\ FirstDoc(rows, calls[c].docs[i].url) # 0
                /\ VisibleDocument(
                      calls[c].parent_url_to_id[calls[c].docs[i].url])
    /\ \A i \in 1..Len(rows) :
          rows[i].is_chunk => VisibleDocument(rows[i].parent_id)

\* a call holds an uncommitted chunk write whose parent this call inserted
\* and committed, while the other call is in progress too
C21_Witness ==
    \E c \in Callers : \E o \in Callers \ {c} :
        /\ InChunkLoop(c)
        /\ InCall(o) /\ calls[o].pc # "connect"
        /\ \E i \in 1..Len(calls[c].pending) :
              /\ calls[c].pending[i].insert
              /\ calls[c].pending[i].row.parent_id \in calls[c].left
              /\ VisibleDocument(calls[c].pending[i].row.parent_id)

\* the ids of the committed rows
CommittedIds == { rows[j].id : j \in 1..Len(rows) }

\* no row that one of the writes inserted is in the committed table
NoneInserted(writes) ==
    \A i \in 1..Len(writes) :
        writes[i].insert => writes[i].row.id \notin CommittedIds

\* C22: each phase of add_pages is all-or-none.  A write is not visible
\* before the commit of its phase; after a failure in the Document phase
\* none of the batch's Document writes is visible; after a failure in the
\* Chunk phase none of the batch's Chunk writes is visible, and all of its
\* Document writes are.
C22_PhaseAllOrNone ==
    \A c \in Callers :
        /\ NoneInserted(calls[c].pending)
        /\ calls[c].failed_in = "docs" =>
              /\ calls[c].left = {}
              /\ NoneInserted(calls[c].dropped)
        /\ calls[c].failed_in = "chunks" =>
              /\ NoneInserted(calls[c].dropped)
              /\ \A i \in 1..Len(calls[c].dropped) :
                    calls[c].dropped[i].row.is_chunk
              /\ calls[c].left \subseteq CommittedIds
              /\ \A i \in 1..Len(calls[c].docs) :
                    calls[c].parent_url_to_id[calls[c].docs[i].url]
                        \in calls[c].left

\* a call failed in its chunk loop holding an inserted chunk, after it had
\* committed a Document it inserted; the other call failed in its Document
\* loop holding a write
C22_Witness ==
    \E c \in Callers : \E o \in Callers \ {c} :
        /\ calls[c].failed_in = "chunks"
        /\ \E i \in 1..Len(calls[c].dropped) : calls[c].dropped[i].insert
        /\ calls[c].left # {}
        /\ calls[o].failed_in = "docs"
        /\ calls[o].dropped # <<>>

(***************************************************************************)
(* Claims about the embedding attempts of search, under SpecEmbed.         *)
(***************************************************************************)
\* what search gives when it falls back to the text search
TextFallback ==
    search(rows, emb.query, TRUE, 500, emb.limit, NullId,
           [db_up |-> emb.db_up, percent_ok |-> TRUE, embed |-> "raise",
            vector_ok |-> TRUE])

\* C23: a search call makes a bounded number of embedding attempts and
\* eventually returns; when the service answers every request with a
\* rate-limit error, search(use_embedding=true) returns after
\* generate_embedding raised, which is the branch of the text search.
C23_SearchEventuallyReturns ==
    /\ [](emb.attempts <= RecursionLimit)
    /\ <>(emb.pc = "returned")
    /\ []((emb.pc = "returned" /\ emb.use_embedding
              /\ emb.service = "limited")
            => emb.outcome = "raise")

\* a search with embeddings returned rows of the text search after the
\* service had answered every attempt with a rate-limit error
C23_Witness ==
    /\ emb.pc = "returned"
    /\ emb.use_embedding
    /\ emb.service = "limited"
    /\ emb.attempts = RecursionLimit
    /\ emb.depth = RecursionLimit
    /\ SearchResult = TextFallback
    /\ ~SearchResult.raised
    /\ SearchResult.rows # <<>>

(***************************************************************************)
(* Further claims about chunk_content, under SpecChunk.                    *)
(***************************************************************************)
\* a non-empty text that ends a and begins b
SharedText(a, b) ==
    \E n \in 1..Min(Len(a), Len(b)) :
        SubSeq(a, Len(a) - n + 1, Len(a)) = SubSeq(b, 1, n)

\* C24: when chunk_content produces more than one chunk for a content of
\* at least overlap_tokens tokens, every two consecutive chunks share a
\* non-empty text: the later chunk begins with text from the end of the
\* earlier one.
C24_ConsecutiveChunksOverlap ==
    (cstage = "done" /\ Len(ChunkSeq) > 1
        /\ count_tokens(content) >= overlap_tokens)
    => \A i \in 1..(Len(ChunkSeq) - 1) :
          SharedText(ChunkSeq[i].content, ChunkSeq[i + 1].content)

\* the sections that are hard-split: more than max_tokens tokens
OversizedSections ==
    SelectSeq(Sections(content), LAMBDA x : count_tokens(x) > max_tokens)

\* the windows the claim names for n tokens: window i starts at token
\* (i - 1) * (max_tokens - overlap_tokens), and there is a window after
\* window i only if window i ends before token n
WindowStart(i) == (i - 1) * (max_tokens - overlap_tokens)

WindowLen(n, i) == Min(max_tokens, n - WindowStart(i))

NumWindows(n) ==
    Cardinality({ i \in 1..n : i = 1 \/ WindowStart(i - 1) + max_tokens < n })

\* the chunks after the j-th are the windows of the tokens
WindowsAt(tokens, num, j) ==
    /\ j + num <= Len(ChunkSeq)
    /\ \A i \in 1..num :
          /\ ChunkSeq[j + i].token_count = WindowLen(Len(tokens), i)
          /\ ChunkSeq[j + i].content =
                Decode(SubSeq(tokens, WindowStart(i) + 1,
                              WindowStart(i) + WindowLen(Len(tokens), i)))

\* every token lies in a window, and two consecutive windows share
\* overlap_tokens tokens
WindowsCover(n, num) ==
    /\ \A t \in 1..n : \E i \in 1..num :
          WindowStart(i) < t /\ t <= WindowStart(i) + WindowLen(n, i)
    /\ \A i \in 1..(num - 1) :
          WindowStart(i) + WindowLen(n, i) - WindowStart(i + 1)
              = overlap_tokens

SplitAsClaimed(tokens, num) ==
    /\ \E j \in 0..Len(ChunkSeq) : WindowsAt(tokens, num, j)
    /\ WindowsCover(Len(tokens), num)
    /\ Len(Sections(content)) = 1 => Len(ChunkSeq) = num

\* C25: for a section of n > max_tokens tokens and 0 <= overlap_tokens <
\* max_tokens, chunk_content returns and the hard split gives exactly the
\* windows that start at token k * (max_tokens - overlap_tokens) and hold
\* min(max_tokens, n - start) tokens, up to the first window that reaches
\* token n; every token lies in a window and consecutive windows share
\* exactly overlap_tokens tokens.
C25_HardSplitWindows ==
    (cstage # "input" /\ tokenizer_ok /\ overlap_tokens < max_tokens)
    => /\ cstage = "done"
       /\ \A k \in 1..Len(OversizedSections) :
             SplitAsClaimed(Encode(OversizedSections[k]),
                            NumWindows(count_tokens(OversizedSections[k])))

\* a section was split into three windows or more that overlap, after a
\* chunk that was accumulated greedily
C25_Witness ==
    /\ cstage = "done"
    /\ 0 < overlap_tokens
    /\ overlap_tokens < max_tokens
    /\ Len(Sections(content)) > 1
    /\ \E k \in 1..Len(OversizedSections) :
          /\ NumWindows(count_tokens(OversizedSections[k])) >= 3
          /\ \E j \in 1..Len(ChunkSeq) :
                WindowsAt(Encode(OversizedSections[k]),
                          NumWindows(count_tokens(OversizedSections[k])), j)

(***************************************************************************)
(* Further claims about add_pages, under Spec.                             *)
(***************************************************************************)
\* the urls of the Chunk rows of the store whose parent is the Document
\* row at index d
StoredChunksOf(d) ==
    { rows[j].url : j \in { i \in 1..Len(rows) :
                              rows[i].is_chunk
                              /\ rows[i].parent_id = rows[d].id } }

\* the urls of the chunks of the batch cut from the page of the url
BatchChunksOf(url) ==
    { args.pages[j].url : j \in { i \in 1..Len(args.pages) :
                                    args.pages[i].is_chunk
                                    /\ ParentUrl(args.pages[i].url) = url } }

\* C26: after add_pages has stored a batch for a Document that was stored
\* before, the Chunk rows whose parent_id is that Document are exactly the
\* chunks of that Document in the batch: no chunk of the older version
\* remains.
C26_RecrawlReplacesChunks ==
    (op = "add_pages" /\ args.db_up) =>
        \A k \in 1..Len(args.pages) :
            (~args.pages[k].is_chunk
                /\ FirstDoc(args.before, args.pages[k].url) # 0)
            => StoredChunksOf(FirstDoc(rows, args.pages[k].url))
                  = BatchChunksOf(args.pages[k].url)

(***************************************************************************)
(* Claims about update_pages, under SpecUpdate.                            *)
(***************************************************************************)
\* the urls a vector search returns from a table
VectorUrls(tbl, e) ==
    UrlsOf(search_by_embedding(tbl, e, 500, MaxLimit, NullId,
                               [db_up |-> TRUE, vector_ok |-> TRUE]))

\* C28: update_pages leaves the stored embedding of every Document
\* unchanged, so a vector search returns the same Documents after the
\* update as before it.
C28_UpdateKeepsEmbeddings ==
    op = "update_pages" =>
        /\ Len(rows) = Len(args.before)
        /\ \A i \in 1..Len(rows) :
              rows[i].embedding = args.before[i].embedding
        /\ \A e \in Embeddings :
              VectorUrls(rows, e) = VectorUrls(args.before, e)

(***************************************************************************)
(* Claims about concurrent calls of add_pages, under SpecCalls.            *)
(***************************************************************************)
\* the committed table holds at most one Document row of a url
OneDocumentRowPerUrl ==
    \A i \in 1..Len(rows) : \A j \in 1..Len(rows) :
        (rows[i].url = rows[j].url /\ ~rows[i].is_chunk /\ ~rows[j].is_chunk)
            => i = j

\* the check of call c found no row of the url it is about to insert, and
\* a Document row of the url has been committed since
StaleCheck(c) ==
    /\ calls[c].pc = "write_doc"
    /\ calls[c].existing = 0
    /\ FirstDoc(rows, calls[c].docs[calls[c].k].url) # 0

\* C27: under every interleaving of two concurrent add_pages calls whose
\* batches hold the same Document url, the store never holds two Document
\* rows of the url, and the check for an existing row and the insert that
\* follows it cannot both find the url absent: no call inserts on a check
\* that another call's insert has made stale.
C27_NoDuplicateDocument ==
    /\ OneDocumentRowPerUrl
    /\ \A c \in Callers : ~StaleCheck(c)

\* both calls found the url absent, and one of them has committed its
\* Document row of the url
BothFoundAbsent ==
    \E c \in Callers : \E o \in Callers \ {c} :
        /\ StaleCheck(c)
        /\ calls[c].docs[calls[c].k].url \in calls[o].found_absent
        /\ \E i \in 1..Len(rows) :
              /\ rows[i].id \in calls[o].left
              /\ rows[i].url = calls[c].docs[calls[c].k].url

\* the page a chunk of a batch was cut from: chunk_content returns a page
\* followed by its chunks, and the batch is these lists one after another
OwnPage(pages, p) ==
    LET before == { i \in 1..p : ~pages[i].is_chunk }
    IN  IF before = {} THEN 0 ELSE CHOOSE i \in before : \A j \in before : j <= i

\* the chunk at position p of the batch of call c is a committed row whose
\* parent is the Document row of its own page
AttachedToOwnPage(c, p) ==
    LET chunk == calls[c].pages[p]
        own == FirstDoc(rows, calls[c].pages[OwnPage(calls[c].pages, p)].url)
    IN  /\ own # 0
        /\ \E i \in 1..Len(rows) :
              /\ rows[i].url = chunk.url
              /\ rows[i].is_chunk
              /\ rows[i].parent_id = rows[own].id

Completed(c) == calls[c].pc = "returned" /\ calls[c].failed_in = "none"

\* C29: for every batch built by chunk_content and stored by add_pages,
\* each chunk is stored with the id of the Document row of the page it was
\* cut from as parent_id, whatever the url of the page, a url with a '#'
\* included: no chunk is dropped or attached to another page of the batch.
C29_ChunkAttachedToOwnPage ==
    \A c \in Callers :
        Completed(c) =>
            \A p \in 1..Len(calls[c].pages) :
                (calls[c].pages[p].is_chunk /\ OwnPage(calls[c].pages, p) # 0)
                    => AttachedToOwnPage(c, p)

\* the same for the pages whose url holds no '#'
ChunkAttachedWhenNoFragment ==
    \A c \in Callers :
        Completed(c) =>
            \A p \in 1..Len(calls[c].pages) :
                (/\ calls[c].pages[p].is_chunk
                 /\ OwnPage(calls[c].pages, p) # 0
                 /\ ParentUrl(calls[c].pages[OwnPage(calls[c].pages, p)].url)
                      = calls[c].pages[OwnPage(calls[c].pages, p)].url)
                    => AttachedToOwnPage(c, p)

\* the ids in the list a call returned
Returned(c) == { calls[c].ret[i] : i \in 1..Len(calls[c].ret) }

\* C30: the list add_pages returns tells what was persisted: it holds
\* exactly the ids of the rows the call wrote and left committed, and it
\* is empty only if the call left no row of the batch committed.
C30_ReturnTellsPersisted ==
    \A c \in Callers :
        calls[c].pc = "returned" =>
            /\ Returned(c) = calls[c].left
            /\ calls[c].ret = <<>> => calls[c].left = {}

\* the same for the calls that did not fail after the commit of their
\* Documents
ReturnTellsPersistedUnlessChunksFail ==
    \A c \in Callers :
        (calls[c].pc = "returned" /\ calls[c].failed_in # "chunks") =>
            /\ Returned(c) = calls[c].left
            /\ calls[c].left \subseteq CommittedIds

====
